---------------------------- MODULE Spec2Model ----------------------------
(***************************************************************************)
(* Verification model of kokodak/docod: the persistent graph store, the    *)
(* impact retriever, the chunk engine with its in-memory index, and the     *)
(* symbol graph with its resolver chain.  Each component has its own        *)
(* specification (SpecStore, SpecRetrieval, SpecIndex, SpecGraph) over the   *)
(* component's variables; the variables of the other components stay idle.   *)
(***************************************************************************)
EXTENDS Integers, Sequences, FiniteSets, Bags, TLC

VARIABLES
    \* ---- storage.SQLiteStore (src/internal/storage/sqlite.go)
    dbNodes,        \* nodes table: id -> content_hash of the row
    dbEdges,        \* edges table: set of <<from_id, to_id, kind>> (primary key)
    saveResult,     \* outcome of the last SaveGraph call: "none" | "ok" | "err"
    lastNodeIDs,    \* ids of g.Nodes of the last successful SaveGraph
    lastEdgeSet,    \* (from,to,kind) triples of g.Edges of the last successful SaveGraph
    \* ---- retrieval.ExtractFromChanges (src/internal/retrieval/subgraph.go)
    rEdges,         \* input g.Edges: sequence of [from, to, kind, conf]
    rChanges,       \* input changes: sequence of [path, lines]
    rCfg,           \* input cfg: [maxHops, minConf, kinds]
    rPc,            \* position in ExtractFromChanges: "idle" | "start" | "bfs" | "done"
    rQueue,         \* BFS queue of [id, depth]
    visitedDepth,   \* id -> depth at which the node was first queued
    nodeScores,     \* id -> score
    rOutEdges,      \* edges collected in crossing order
    edgeSeen,       \* signatures of the edges collected
    rResult,        \* the returned Subgraph
    \* ---- knowledge.Engine + knowledge.MemoryIndex (src/internal/knowledge)
    eGraph,         \* name of the symbol graph the engine is built on
    mItems,         \* MemoryIndex.items: sequence of [chunk, fresh]
    mIndexByID,     \* MemoryIndex.indexByID: chunk id -> position in items
    mHashes,        \* MemoryIndex.contentHashes: chunk id -> content hash
    iRun,           \* record of the last indexing run (inputs, outcome, what was embedded)
    \* ---- graph.Graph + resolver chain (src/internal/graph/graph.go)
    gNodes,         \* Graph.Nodes: id -> code unit
    nameIndex,      \* Graph.nameIndex: name -> sequence of ids
    gEdges,         \* Graph.Edges: sequence of [from, to, kind]
    gLinked,        \* TRUE when the last operation on the graph was a resolver-chain run
    gUpdate,        \* the last incremental graph update: [done, before, outcomes]
    \* ---- generator doc model (src/internal/generator/full_doc_plan_test.go)
    dModel,         \* the DocModel held in memory: <<>> (none) or <<model>>
    dFile,          \* content of doc_model.json: <<>> (no file) or <<model>>
    dOp,            \* the last doc-model operation and its outcome
    \* ---- resolver.ResolverChain over a graph (src/unnamed/part_009)
    cGraph,         \* the graph handed to Run: [nodes, index, edges, unresolved]
    cChain,         \* ResolverChain.resolvers: sequence of [name, kind, fails]
    cPc,            \* position in Run: "idle" | "loop" | "done"
    cPos,           \* index in cChain of the resolver the loop is at
    cCalls,         \* names of the resolvers whose Resolve was called, in call order
    cOut,           \* the StageResult list built by Run
    \* ---- extractor.CalibrateRelationConfidence (src/internal/extractor/extractor.go)
    kCall,          \* the last call: [kind, resolver, evidence, result], result in hundredths
    \* ---- planner.BuildDocUpdatePlan (src/internal/planner/doc_plan.go)
    pCall,          \* the last call: [model, sg, plan]; model and sg are <<>> (nil) or <<value>>
    \* ---- pipeline runs: generateCmd (src/cmd/docod/main.go), IncrementalSync.Run, MarkdownGenerator.GenerateDocsWithReport
    runMode,        \* "none" | "generate" (docod generate) | "sync" (docod update)
    runPc,          \* the stage to run next, or "idle" | "done"
    runIn,          \* what the run finds: [force, changes, docExists, dirOk]
    runReport,      \* the PipelineReport in memory: <<>> or <<[Mode, Stages, Signals]>>
    runFile,        \* pipeline_report.json as this run wrote it: <<>> or <<report>>
    runExit,        \* "none" | "running" | "ok" | "fatal"
    \* ---- doc model loaders: DocUpdater.loadOrBootstrapModel (src/unnamed/part_005), IncrementalSync.loadDocModelForPlanning
    lIn,            \* what the loader finds: [file, doc, schema, dirOk]
    lOut,           \* the last call: [caller, err, model, file]
    \* ---- the full-document generation run (GenerateDocsWithReport)
    genSummarizer,  \* TRUE iff the generator was built with a summarizer (g.summarizer != nil)
    genPos,         \* 0 before the run, then the index of the next section, 4 once all are written
    llmBudget,      \* the run's remaining budget of LLM section rewrites
    genCalls,       \* the summarizer invocations of the run, in order: [section, method]
    genSections,    \* the section results of the run, in order
    \* ---- the index_health stage of the generate command
    hExpected,      \* the chunk IDs of engine.PrepareSearchChunks, as prepared (0 is a blank ID)
    hIndexed,       \* the chunk IDs in the store's vector index (0 is a blank ID)
    hStage,         \* the outcome of the stage: [done, mode, before, after]
    \* ---- one call of limitChunksByBudget
    bChunks,        \* the chunks handed to the call
    bMax,           \* the budget handed to the call
    bOut,           \* the call's outcome: [called, out]
    \* ---- one call of hydrateSourceBlock
    hydIn,          \* the source reference and its file: [file, startLine, endLine]
    hydOut,         \* the call's outcome: [called, result, start, end]
    \* ---- a MemoryIndex under direct Add and Delete calls
    memIx           \* the index value: [items, indexByID, hashes]

storeVars == <<dbNodes, dbEdges, saveResult, lastNodeIDs, lastEdgeSet>>

retrievalVars == <<rEdges, rChanges, rCfg, rPc, rQueue, visitedDepth, nodeScores,
                   rOutEdges, edgeSeen, rResult>>

indexVars == <<eGraph, mItems, mIndexByID, mHashes, iRun>>

graphVars == <<gNodes, nameIndex, gEdges, gLinked, gUpdate>>

docVars == <<dModel, dFile, dOp>>

chainVars == <<cGraph, cChain, cPc, cPos, cCalls, cOut>>

calibVars == <<kCall>>

planVars == <<pCall>>

runVars == <<runMode, runPc, runIn, runReport, runFile, runExit>>

loadVars == <<lIn, lOut>>

genVars == <<genSummarizer, genPos, llmBudget, genCalls, genSections>>

healthVars == <<hExpected, hIndexed, hStage>>

budgetVars == <<bChunks, bMax, bOut>>

hydrateVars == <<hydIn, hydOut>>

memVars == <<memIx>>

vars == <<dbNodes, dbEdges, saveResult, lastNodeIDs, lastEdgeSet,
          rEdges, rChanges, rCfg, rPc, rQueue, visitedDepth, nodeScores,
          rOutEdges, edgeSeen, rResult,
          eGraph, mItems, mIndexByID, mHashes, iRun,
          gNodes, nameIndex, gEdges, gLinked, gUpdate,
          dModel, dFile, dOp,
          cGraph, cChain, cPc, cPos, cCalls, cOut,
          kCall,
          pCall,
          runMode, runPc, runIn, runReport, runFile, runExit,
          lIn, lOut,
          genSummarizer, genPos, llmBudget, genCalls, genSections,
          hExpected, hIndexed, hStage,
          bChunks, bMax, bOut,
          hydIn, hydOut,
          memIx>>

-----------------------------------------------------------------------------
(* Generic helpers *)

Range(s) == {s[i] : i \in 1..Len(s)}

SeqsUpTo(S, n) == UNION {[1..k -> S] : k \in 0..n}

EmptyFn == [x \in {} |-> 0]

\* The variables of a component that is not part of the running specification.
IdleRetrieval ==
    /\ rEdges = <<>>
    /\ rChanges = <<>>
    /\ rCfg = [maxHops |-> 0, minConf |-> 0, kinds |-> {}]
    /\ rPc = "idle"
    /\ rQueue = <<>>
    /\ visitedDepth = EmptyFn
    /\ nodeScores = EmptyFn
    /\ rOutEdges = <<>>
    /\ edgeSeen = {}
    /\ rResult = EmptyFn

NoRun == [op |-> "none", n |-> 0]

IdleIndex ==
    /\ eGraph = "none"
    /\ mItems = <<>>
    /\ mIndexByID = EmptyFn
    /\ mHashes = EmptyFn
    /\ iRun = NoRun

NoUpdate == [done |-> FALSE, before |-> EmptyFn, outcomes |-> EmptyFn]

IdleGraph ==
    /\ gNodes = EmptyFn
    /\ nameIndex = EmptyFn
    /\ gEdges = <<>>
    /\ gLinked = FALSE
    /\ gUpdate = NoUpdate

NoDocOp == [op |-> "none", err |-> "", wrote |-> FALSE, schema |-> "none"]

IdleDoc ==
    /\ dModel = <<>>
    /\ dFile = <<>>
    /\ dOp = NoDocOp

IdleChain ==
    /\ cGraph = [nodes |-> EmptyFn, index |-> EmptyFn, edges |-> <<>>, unresolved |-> <<>>]
    /\ cChain = <<>>
    /\ cPc = "idle"
    /\ cPos = 0
    /\ cCalls = <<>>
    /\ cOut = <<>>

NoCall ==
    [kind |-> "", resolver |-> "", evidence |-> [Filepath |-> "", StartLine |-> 0, EndLine |-> 0],
     result |-> 0]

IdleCalib == kCall = NoCall

EmptyPlan ==
    [TriggeredSymbolIDs |-> <<>>, TriggeredFiles |-> <<>>, AffectedSections |-> <<>>,
     UnmatchedSymbols |-> <<>>]

NoPlanCall == [model |-> <<>>, sg |-> <<>>, plan |-> EmptyPlan, called |-> FALSE]

IdlePlan == pCall = NoPlanCall

NoRunInput == [force |-> FALSE, changes |-> 0, docExists |-> FALSE, dirOk |-> TRUE]

IdleRun ==
    /\ runMode = "none"
    /\ runPc = "idle"
    /\ runIn = NoRunInput
    /\ runReport = <<>>
    /\ runFile = <<>>
    /\ runExit = "none"

AbsentFile == [state |-> "absent", model |-> <<>>]

NoLoadInput == [file |-> AbsentFile, doc |-> <<>>, schema |-> "ok", dirOk |-> TRUE]

NoLoad == [caller |-> "none", err |-> "", model |-> <<>>, file |-> AbsentFile]

IdleLoad ==
    /\ lIn = NoLoadInput
    /\ lOut = NoLoad

IdleGen ==
    /\ genSummarizer = FALSE
    /\ genPos = 0
    /\ llmBudget = 0
    /\ genCalls = <<>>
    /\ genSections = <<>>

NoMetrics ==
    [ExpectedChunks |-> 0, IndexedChunks |-> 0, MissingChunks |-> 0, StaleChunks |-> 0,
     Coverage |-> <<1, 1>>, Freshness |-> <<1, 1>>, StaleRatio |-> <<0, 1>>]

NoStage ==
    [done |-> FALSE, err |-> "", mode |-> "reuse", before |-> NoMetrics, after |-> NoMetrics]

IdleHealth ==
    /\ hExpected = {}
    /\ hIndexed = {}
    /\ hStage = NoStage

NoBudgetCall == [called |-> FALSE, out |-> <<>>]

IdleBudget ==
    /\ bChunks = <<>>
    /\ bMax = 0
    /\ bOut = NoBudgetCall

NoSourceFile == [state |-> "nopath", lines |-> 1, blank |-> "none"]

NoHydrateInput == [file |-> NoSourceFile, startLine |-> 0, endLine |-> 0]

NoHydrate == [called |-> FALSE, result |-> "none", start |-> 0, end |-> 0]

IdleHydrate ==
    /\ hydIn = NoHydrateInput
    /\ hydOut = NoHydrate

NewMemoryIndex == [items |-> <<>>, indexByID |-> EmptyFn, hashes |-> EmptyFn]

IdleMem == memIx = NewMemoryIndex

-----------------------------------------------------------------------------
(***************************************************************************)
(* Persistent store: SQLiteStore.SaveGraph                                  *)
(***************************************************************************)

MaxStoreEdges == 2

StoreIDs == {"a", "b", "c"}
StoreHashes == {"h1", "h2"}
StoreEdgeUniverse ==
    {<<"a", "b", "calls">>, <<"c", "b", "calls">>, <<"a", "b", "uses_type">>}

\* Graphs handed to SaveGraph: a map id -> unit (content hash) and an edge list.
StoreNodeMaps == UNION {[S -> StoreHashes] : S \in SUBSET StoreIDs}
StoreEdgeLists == SeqsUpTo(StoreEdgeUniverse, MaxStoreEdges)

\* INSERT INTO nodes ... ON CONFLICT(id) DO UPDATE SET ... for every g.Nodes entry.
UpsertNodes(table, nodes) ==
    [id \in DOMAIN table \cup DOMAIN nodes |->
        IF id \in DOMAIN nodes THEN nodes[id] ELSE table[id]]

\* INSERT INTO edges ... ON CONFLICT(from_id, to_id, kind) DO NOTHING for every g.Edges entry.
InsertEdges(table, edges) == table \cup Range(edges)

IdleStore ==
    /\ dbNodes = EmptyFn
    /\ dbEdges = {}
    /\ saveResult = "none"
    /\ lastNodeIDs = {}
    /\ lastEdgeSet = {}

InitStore ==
    /\ IdleRetrieval
    /\ IdleIndex
    /\ IdleGraph
    /\ IdleDoc
    /\ IdleChain
    /\ IdleCalib
    /\ IdlePlan
    /\ IdleRun
    /\ IdleLoad
    /\ IdleGen
    /\ IdleHealth
    /\ IdleBudget
    /\ IdleHydrate
    /\ IdleMem
    /\ dbNodes = EmptyFn
    /\ dbEdges = {}
    /\ saveResult = "none"
    /\ lastNodeIDs = {}
    /\ lastEdgeSet = {}

\* SaveGraph whose transaction commits.
SaveGraph(nodes, edges) ==
    /\ dbNodes' = UpsertNodes(dbNodes, nodes)
    /\ dbEdges' = InsertEdges(dbEdges, edges)
    /\ saveResult' = "ok"
    /\ lastNodeIDs' = DOMAIN nodes
    /\ lastEdgeSet' = Range(edges)
    /\ UNCHANGED <<retrievalVars, indexVars, graphVars, docVars, chainVars, calibVars, planVars, runVars, loadVars, genVars, healthVars, budgetVars, hydrateVars, memVars>>

\* SaveGraph that returns an error (BeginTx, Prepare, Exec or Commit failed):
\* the deferred tx.Rollback() discards every statement of the transaction.
SaveGraphFail ==
    /\ saveResult' = "err"
    /\ UNCHANGED <<dbNodes, dbEdges, lastNodeIDs, lastEdgeSet>>
    /\ UNCHANGED <<retrievalVars, indexVars, graphVars, docVars, chainVars, calibVars, planVars, runVars, loadVars, genVars, healthVars, budgetVars, hydrateVars, memVars>>

SaveGraphOk == \E nodes \in StoreNodeMaps, edges \in StoreEdgeLists : SaveGraph(nodes, edges)

NextStore ==
    \/ SaveGraphOk
    \/ SaveGraphFail

SpecStore == InitStore /\ [][NextStore]_vars

\* C1: after any sequence of successful SaveGraph calls the ids in the nodes
\* table are exactly the symbol ids of the graph of the most recent call (stale
\* rows are deleted; an empty graph leaves an empty table).
C1_NodesExactSync == DOMAIN dbNodes = lastNodeIDs

\* C2: after any sequence of successful SaveGraph calls the (from,to,kind)
\* triples in the edges table are exactly those of the graph of the most recent call.
C2_EdgesExactSync == dbEdges = lastEdgeSet

-----------------------------------------------------------------------------
(***************************************************************************)
(* Impact retriever: retrieval.ExtractFromChanges                           *)
(*                                                                         *)
(* Confidences are in tenths (3 is 0.3).  A score is the exact rational     *)
(* n / 10^d, kept as [n, d] in lowest terms of 10: the code's float64       *)
(* products are modelled without rounding.                                  *)
(***************************************************************************)

MaxEdges == 4
MaxHopsBound == 3

\* The symbols of the graph: id -> file and line range.
RSymbols ==
    [id \in {"A", "B", "C", "D"} |->
        CASE id = "A" -> [file |-> "a.go", start |-> 10, end |-> 40]
          [] id = "B" -> [file |-> "b.go", start |-> 1, end |-> 20]
          [] id = "C" -> [file |-> "c.go", start |-> 1, end |-> 20]
          [] id = "D" -> [file |-> "a.go", start |-> 50, end |-> 60]]

\* Lexicographic order of the ids, files and kinds used (Go compares strings).
IDOrder == <<"A", "B", "C", "D">>
FileOrder == <<"a.go", "b.go", "c.go">>
KindOrder == <<"calls", "uses_type">>

RankIn(order, x) == CHOOSE i \in 1..Len(order) : order[i] = x

REdge(f, t, k, c) == [from |-> f, to |-> t, kind |-> k, conf |-> c]

REdgeUniverse ==
    { REdge("A", "B", "calls", 3),
      REdge("A", "C", "calls", 10),
      REdge("C", "B", "calls", 0),
      REdge("B", "D", "calls", 12),
      REdge("A", "B", "uses_type", 9),
      REdge("A", "B", "calls", 9) }

\* Edge lists without repeated elements, of at most MaxEdges edges.
REdgeLists ==
    {s \in SeqsUpTo(REdgeUniverse, MaxEdges) :
        \A i, j \in 1..Len(s) : i # j => s[i] # s[j]}

RChangeLists ==
    { <<[path |-> "a.go", lines |-> <<20>>]>>,
      <<[path |-> "a.go", lines |-> <<>>]>>,
      <<[path |-> "a.go", lines |-> <<45>>], [path |-> "a.go", lines |-> <<45>>]>> }

RConfigs ==
    [maxHops : -1..MaxHopsBound, minConf : {0, 7}, kinds : {{}, {"calls"}}]

\* ---- scores
RECURSIVE Pow10(_)
Pow10(d) == IF d = 0 THEN 1 ELSE 10 * Pow10(d - 1)
RECURSIVE ScoreNorm(_)
ScoreNorm(s) ==
    IF s.d > 0 /\ s.n % 10 = 0 THEN ScoreNorm([n |-> s.n \div 10, d |-> s.d - 1]) ELSE s
ScoreZero == [n |-> 0, d |-> 0]
ScoreOne == [n |-> 1, d |-> 0]
\* s * c for a confidence c in tenths.
ScoreMul(s, c) == ScoreNorm([n |-> s.n * c, d |-> s.d + 1])
ScoreAt(s, d) == s.n * Pow10(d - s.d)
ScoreGt(a, b) ==
    LET d == IF a.d > b.d THEN a.d ELSE b.d IN ScoreAt(a, d) > ScoreAt(b, d)
ScoreEq(a, b) ==
    LET d == IF a.d > b.d THEN a.d ELSE b.d IN ScoreAt(a, d) = ScoreAt(b, d)

\* A Go map read: the zero value for a missing key.
ScoreOf(m, id) == IF id \in DOMAIN m THEN m[id] ELSE ScoreZero

normalizedEdgeConfidence(c) ==
    IF c <= 0 THEN 5
    ELSE IF c > 10 THEN 10
    ELSE c

edgeAllowed_IgnoresConfidence(e, cfg) ==
    IF cfg.kinds = {} THEN TRUE ELSE e.kind \in cfg.kinds

edgeAllowed(e, cfg) ==
    IF cfg.minConf > 0 /\ e.conf < cfg.minConf THEN FALSE
    ELSE IF cfg.kinds = {} THEN TRUE
    ELSE e.kind \in cfg.kinds

edgeSignature(e) == <<e.from, e.to, e.kind>>

lineRangeOverlaps(start, end, changed) ==
    IF Len(changed) = 0 THEN TRUE
    ELSE \E i \in 1..Len(changed) : changed[i] >= start /\ changed[i] <= end

findSeedNodeIDs(changes) ==
    {id \in DOMAIN RSymbols :
        \E i \in 1..Len(changes) :
            /\ RSymbols[id].file = changes[i].path
            /\ lineRangeOverlaps(RSymbols[id].start, RSymbols[id].end, changes[i].lines)}

\* The elements of S in the order given by `order` (sort.Strings on distinct keys).
SortedBy(order, S) == SelectSeq(order, LAMBDA x : x \in S)

sortedKeys(S) == SortedBy(IDOrder, S)

changedFilePaths(changes) ==
    SortedBy(FileOrder, {changes[i].path : i \in 1..Len(changes)} \ {""})

\* The clamp of a negative MaxHops at the head of ExtractFromChanges.
ClampHops(h) == IF h < 0 THEN 0 ELSE h

\* adj[id]: one hop for each allowed edge leaving id, one for each entering it,
\* in the order of g.Edges.
RECURSIVE AdjOf(_, _, _)
AdjOf(edges, cfg, id) ==
    IF edges = <<>> THEN <<>>
    ELSE LET e == Head(edges)
             out == IF edgeAllowed(e, cfg) /\ e.from = id
                    THEN <<[to |-> e.to, edge |-> e]>> ELSE <<>>
             in == IF edgeAllowed(e, cfg) /\ e.to = id
                   THEN <<[to |-> e.from, edge |-> e]>> ELSE <<>>
         IN out \o in \o AdjOf(Tail(edges), cfg, id)

\* cur.depth >= cfg.MaxHops: the node is not expanded.
DepthExhausted_OffByOne(depth, maxHops) == depth > maxHops

DepthExhausted(depth, maxHops) == depth >= maxHops

\* The body of `for _, next := range adj[cur.id]` applied to the hops in order.
\* st = [scores, depth, queue, edges, seen].
RECURSIVE CrossHops(_, _, _)
CrossHops(hops, cur, st) ==
    IF hops = <<>> THEN st
    ELSE LET next == Head(hops)
             sig == edgeSignature(next.edge)
             newSeen == st.seen \cup {sig}
             newEdges == IF sig \in st.seen THEN st.edges ELSE Append(st.edges, next.edge)
             nextDepth == cur.depth + 1
             candidate == ScoreMul(ScoreOf(st.scores, cur.id),
                                   normalizedEdgeConfidence(next.edge.conf))
             newScores == IF ScoreGt(candidate, ScoreOf(st.scores, next.to))
                          THEN [id \in DOMAIN st.scores \cup {next.to} |->
                                   IF id = next.to THEN candidate ELSE st.scores[id]]
                          ELSE st.scores
             requeue == next.to \notin DOMAIN st.depth \/ nextDepth < st.depth[next.to]
             newDepth == IF requeue
                         THEN [id \in DOMAIN st.depth \cup {next.to} |->
                                  IF id = next.to THEN nextDepth ELSE st.depth[id]]
                         ELSE st.depth
             newQueue == IF requeue
                         THEN Append(st.queue, [id |-> next.to, depth |-> nextDepth])
                         ELSE st.queue
         IN CrossHops(Tail(hops), cur,
                      [scores |-> newScores, depth |-> newDepth, queue |-> newQueue,
                       edges |-> newEdges, seen |-> newSeen])

\* sort.Slice(edges, ...) by (from, to, kind); the collected edges have distinct signatures.
EdgeLess(a, b) ==
    IF a.from = b.from
    THEN IF a.to = b.to
         THEN RankIn(KindOrder, a.kind) < RankIn(KindOrder, b.kind)
         ELSE RankIn(IDOrder, a.to) < RankIn(IDOrder, b.to)
    ELSE RankIn(IDOrder, a.from) < RankIn(IDOrder, b.from)

SortEdges(edges) == SortSeq(edges, EdgeLess)

InitRetrieval ==
    /\ IdleStore
    /\ IdleIndex
    /\ IdleGraph
    /\ IdleDoc
    /\ IdleChain
    /\ IdleCalib
    /\ IdlePlan
    /\ IdleRun
    /\ IdleLoad
    /\ IdleGen
    /\ IdleHealth
    /\ IdleBudget
    /\ IdleHydrate
    /\ IdleMem
    /\ rEdges \in REdgeLists
    /\ rChanges \in RChangeLists
    /\ rCfg \in RConfigs
    /\ rPc = "start"
    /\ rQueue = <<>>
    /\ visitedDepth = EmptyFn
    /\ nodeScores = EmptyFn
    /\ rOutEdges = <<>>
    /\ edgeSeen = {}
    /\ rResult = EmptyFn

\* ExtractFromChanges when no symbol is a seed: the early return.
ExtractNoSeeds ==
    /\ rPc = "start"
    /\ findSeedNodeIDs(rChanges) = {}
    /\ rPc' = "done"
    /\ rResult' = [maxHops |-> ClampHops(rCfg.maxHops),
                   seedIDs |-> <<>>,
                   updatedFiles |-> changedFilePaths(rChanges),
                   nodeIDs |-> <<>>,
                   nodeScores |-> EmptyFn,
                   edges |-> <<>>]
    /\ UNCHANGED <<rEdges, rChanges, rCfg, rQueue, visitedDepth, nodeScores,
                   rOutEdges, edgeSeen>>
    /\ UNCHANGED <<storeVars, indexVars, graphVars, docVars, chainVars, calibVars, planVars, runVars, loadVars, genVars, healthVars, budgetVars, hydrateVars, memVars>>

\* ExtractFromChanges up to the BFS loop: seeds get depth 0 and score 1.0 and
\* are queued in sorted order.
ExtractStart ==
    /\ rPc = "start"
    /\ findSeedNodeIDs(rChanges) # {}
    /\ LET seedIDs == sortedKeys(findSeedNodeIDs(rChanges))
       IN /\ visitedDepth' = [id \in Range(seedIDs) |-> 0]
          /\ nodeScores' = [id \in Range(seedIDs) |-> ScoreOne]
          /\ rQueue' = [i \in 1..Len(seedIDs) |-> [id |-> seedIDs[i], depth |-> 0]]
    /\ rPc' = "bfs"
    /\ UNCHANGED <<rEdges, rChanges, rCfg, rOutEdges, edgeSeen, rResult>>
    /\ UNCHANGED <<storeVars, indexVars, graphVars, docVars, chainVars, calibVars, planVars, runVars, loadVars, genVars, healthVars, budgetVars, hydrateVars, memVars>>

\* One iteration of `for len(queue) > 0`.
BfsStep ==
    /\ rPc = "bfs"
    /\ rQueue # <<>>
    /\ LET cur == Head(rQueue)
           st0 == [scores |-> nodeScores, depth |-> visitedDepth, queue |-> Tail(rQueue),
                   edges |-> rOutEdges, seen |-> edgeSeen]
           st == IF DepthExhausted(cur.depth, ClampHops(rCfg.maxHops))
                 THEN st0
                 ELSE CrossHops(AdjOf(rEdges, rCfg, cur.id), cur, st0)
       IN /\ nodeScores' = st.scores
          /\ visitedDepth' = st.depth
          /\ rQueue' = st.queue
          /\ rOutEdges' = st.edges
          /\ edgeSeen' = st.seen
    /\ UNCHANGED <<rEdges, rChanges, rCfg, rPc, rResult>>
    /\ UNCHANGED <<storeVars, indexVars, graphVars, docVars, chainVars, calibVars, planVars, runVars, loadVars, genVars, healthVars, budgetVars, hydrateVars, memVars>>

\* After the loop: sort and return the Subgraph.
ExtractReturn ==
    /\ rPc = "bfs"
    /\ rQueue = <<>>
    /\ rPc' = "done"
    /\ rResult' = [maxHops |-> ClampHops(rCfg.maxHops),
                   seedIDs |-> sortedKeys(findSeedNodeIDs(rChanges)),
                   updatedFiles |-> changedFilePaths(rChanges),
                   nodeIDs |-> sortedKeys(DOMAIN visitedDepth),
                   nodeScores |-> nodeScores,
                   edges |-> SortEdges(rOutEdges)]
    /\ UNCHANGED <<rEdges, rChanges, rCfg, rQueue, visitedDepth, nodeScores,
                   rOutEdges, edgeSeen>>
    /\ UNCHANGED <<storeVars, indexVars, graphVars, docVars, chainVars, calibVars, planVars, runVars, loadVars, genVars, healthVars, budgetVars, hydrateVars, memVars>>

NextRetrieval ==
    \/ ExtractNoSeeds
    \/ ExtractStart
    \/ BfsStep
    \/ ExtractReturn

SpecRetrieval == InitRetrieval /\ [][NextRetrieval]_vars

\* ---- what the claims speak of, computed from the inputs alone

\* The filter as the claims state it.
PassesFilter(e) ==
    /\ e.conf >= rCfg.minConf
    /\ rCfg.kinds = {} \/ e.kind \in rCfg.kinds

PassingEdges == {e \in Range(rEdges) : PassesFilter(e)}

HopBudget == IF rCfg.maxHops < 0 THEN 0 ELSE rCfg.maxHops

\* Nodes joined to n by a passing edge, in either direction.
PassingNeighbours(n) ==
    {e.to : e \in {x \in PassingEdges : x.from = n}}
        \cup {e.from : e \in {x \in PassingEdges : x.to = n}}

\* Nodes reachable from a seed by a path of at most k passing edges.
RECURSIVE ReachWithin(_)
ReachWithin(k) ==
    IF k = 0 THEN findSeedNodeIDs(rChanges)
    ELSE LET prev == ReachWithin(k - 1)
         IN prev \cup UNION {PassingNeighbours(n) : n \in prev}

MaxScore(S) == CHOOSE s \in S : \A t \in S : ~ScoreGt(t, s)

\* BestWithin(k)[n]: the largest product of normalized confidences over the
\* paths of at most k passing edges from a seed to n (ScoreZero when there is none).
RECURSIVE BestWithin(_)
BestWithin(k) ==
    IF k = 0
    THEN [n \in DOMAIN RSymbols |->
            IF n \in findSeedNodeIDs(rChanges) THEN ScoreOne ELSE ScoreZero]
    ELSE LET prev == BestWithin(k - 1)
         IN [n \in DOMAIN RSymbols |->
                MaxScore({prev[n]}
                    \cup {ScoreMul(prev[e.from], normalizedEdgeConfidence(e.conf)) :
                            e \in {x \in PassingEdges : x.to = n}}
                    \cup {ScoreMul(prev[e.to], normalizedEdgeConfidence(e.conf)) :
                            e \in {x \in PassingEdges : x.from = n}})]

\* C3: every node id returned by ExtractFromChanges is reachable from a seed by
\* a path of at most maxHops (negative: 0) edges that pass the filter.
C3_NodesWithinHops ==
    rPc = "done" => Range(rResult.nodeIDs) \subseteq ReachWithin(HopBudget)

\* C3 witness: a run with a positive hop budget returned a node that is not a
\* seed and left out a node that lies one hop further.
C3_Witness ==
    /\ rPc = "done"
    /\ HopBudget >= 1
    /\ Range(rResult.nodeIDs) # Range(rResult.seedIDs)
    /\ ReachWithin(HopBudget + 1) \ Range(rResult.nodeIDs) # {}

\* C4: the score of every returned node is the maximum, over the paths of at
\* most maxHops passing edges from a seed, of the product of the normalized
\* edge confidences (seeds 1.0; confidence <= 0 counts 0.5, > 1 counts 1).
C4_ScoreIsBestPath ==
    rPc = "done" =>
        \A n \in Range(rResult.nodeIDs) :
            ScoreEq(rResult.nodeScores[n], BestWithin(HopBudget)[n])

\* C5: no returned edge fails the filter, no node that the seeds reach only
\* through failing edges is returned, and the single edge A->B of confidence
\* 0.3 with minConfidence 0.7, maxHops 2 and seed A yields nodeIDs = [A], no
\* edges and score A = 1.0.
C5_FilterRespected ==
    rPc = "done" =>
        /\ \A i \in 1..Len(rResult.edges) : PassesFilter(rResult.edges[i])
        /\ Range(rResult.nodeIDs) \subseteq ReachWithin(Len(rEdges))
        /\ ( /\ rEdges = <<REdge("A", "B", "calls", 3)>>
             /\ rCfg.minConf = 7
             /\ rCfg.maxHops = 2
             /\ rChanges = <<[path |-> "a.go", lines |-> <<20>>]>> )
           => /\ rResult.seedIDs = <<"A">>
              /\ rResult.nodeIDs = <<"A">>
              /\ rResult.edges = <<>>
              /\ ScoreEq(rResult.nodeScores["A"], ScoreOne)

\* C5 witness: the run of the scenario has returned, and so has a run in which
\* a failing edge was the only link between a seed and another node.
C5_Witness ==
    /\ rPc = "done"
    /\ rEdges = <<REdge("A", "B", "calls", 3)>>
    /\ rCfg.minConf = 7
    /\ rCfg.maxHops = 2
    /\ rChanges = <<[path |-> "a.go", lines |-> <<20>>]>>
    /\ rResult.nodeIDs = <<"A">>

-----------------------------------------------------------------------------
(* knowledge.Engine and knowledge.MemoryIndex                               *)
(* (src/internal/knowledge/engine.go, src/internal/knowledge/implementations.go) *)

\* Largest IndexingOptions.MaxChunksPerRun tried; 0 means "no budget".
MaxBudget == 4

\* Number of indexing runs followed.
MaxRuns == 2

segmentLines == 40
segmentOverlap == 8
maxSegments == 3
segmentThreshold == 45

IndexFiles == {"pkg/a.go", "pkg/b.go"}

\* A graph node as the engine reads it.  A content hash is a sequence of
\* tokens so that the concatenations the engine builds stay distinguishable;
\* lines is the line count of the (truncated) symbol body.
ESym(name, unitType, file, hash, lines) ==
    [name |-> name, unitType |-> unitType, filePath |-> file, hash |-> hash,
     lines |-> lines]

EngineGraphNames == {"two_files", "a_edited", "a_helper", "b_deleted"}

\* The graphs the engine is built on.  "two_files" is the graph of
\* TestEngine_IndexIncrementalWithOptions_BudgetLimit; in "a_edited" Alpha has
\* a new, long body and pkg/b.go has gained an unexported helper nothing
\* refers to; in "a_helper" Alpha calls an unexported helper of its own file;
\* in "b_deleted" pkg/b.go is gone.
EngineGraph(g) ==
    CASE g = "two_files" ->
           [nodes |-> ("id1" :> ESym("Alpha", "function", "pkg/a.go", <<"h1">>, 3))
                   @@ ("id2" :> ESym("Beta", "function", "pkg/b.go", <<"h1">>, 3)),
            edges |-> <<>>]
      [] g = "a_edited" ->
           [nodes |-> ("id1" :> ESym("Alpha", "function", "pkg/a.go", <<"h2">>, 50))
                   @@ ("id2" :> ESym("Beta", "function", "pkg/b.go", <<"h1">>, 3))
                   @@ ("id3" :> ESym("helper", "function", "pkg/b.go", <<"h3">>, 3)),
            edges |-> <<>>]
      [] g = "a_helper" ->
           [nodes |-> ("id1" :> ESym("Alpha", "function", "pkg/a.go", <<"h1">>, 3))
                   @@ ("id2" :> ESym("Beta", "function", "pkg/b.go", <<"h1">>, 3))
                   @@ ("id3" :> ESym("helper", "function", "pkg/a.go", <<"h3">>, 3)),
            edges |-> <<[from |-> "id1", to |-> "id3"]>>]
      [] g = "b_deleted" ->
           [nodes |-> ("id1" :> ESym("Alpha", "function", "pkg/a.go", <<"h1">>, 3)),
            edges |-> <<>>]

\* Names whose first byte is in 'A'..'Z'.
UpperCaseNames == {"Alpha", "Beta"}

isExported(name) == name \in UpperCaseNames

\* filepath.Base of the file paths in use.
FileBase(path) == IF path = "pkg/a.go" THEN "a.go" ELSE "b.go"

\* fmt.Sprintf("%s::seg:%d", id, k)
SegID(id, k) ==
    CASE id = "id1" -> <<"id1::seg:1", "id1::seg:2", "id1::seg:3">>[k]
      [] id = "id2" -> <<"id2::seg:1", "id2::seg:2", "id2::seg:3">>[k]
      [] id = "id3" -> <<"id3::seg:1", "id3::seg:2", "id3::seg:3">>[k]

SegHash(hash, k) == hash \o <<(<<"::seg:1", "::seg:2", "::seg:3">>)[k]>>

\* Byte order of the chunk ids and of the hash tokens, as Go compares strings.
ChunkIDOrder ==
    <<"id1", "id1::seg:1", "id1::seg:2", "id1::seg:3",
      "id2", "id2::seg:1", "id2::seg:2", "id2::seg:3",
      "id3", "id3::seg:1", "id3::seg:2", "id3::seg:3",
      "pkg/a.go", "pkg/b.go">>

HashTokenOrder == <<"::seg:1", "::seg:2", "::seg:3", "h1", "h2", "h3">>

RECURSIVE HashLess(_, _)
HashLess(a, b) ==
    IF b = <<>> THEN FALSE
    ELSE IF a = <<>> THEN TRUE
    ELSE IF Head(a) = Head(b) THEN HashLess(Tail(a), Tail(b))
    ELSE RankIn(HashTokenOrder, Head(a)) < RankIn(HashTokenOrder, Head(b))

RECURSIVE SetToSeq(_)
SetToSeq(S) ==
    IF S = {} THEN <<>>
    ELSE LET x == CHOOSE y \in S : TRUE IN <<x>> \o SetToSeq(S \ {x})

IterationOrders(S) == {p \in [1..Cardinality(S) -> S] : Range(p) = S}

minInt(a, b) == IF a < b THEN a ELSE b

GetDependencies(g, id) ==
    LET es == SelectSeq(g.edges, LAMBDA e : e.from = id /\ e.to \in DOMAIN g.nodes)
    IN  [i \in 1..Len(es) |-> es[i].to]

GetDependents(g, id) ==
    LET es == SelectSeq(g.edges, LAMBDA e : e.to = id /\ e.from \in DOMAIN g.nodes)
    IN  [i \in 1..Len(es) |-> es[i].from]

\* The ids within k hops of S over dependencies and dependents.
RECURSIVE HopBall(_, _, _)
HopBall(g, S, k) ==
    IF k = 0 THEN S
    ELSE HopBall(g, S \cup UNION {Range(GetDependencies(g, n)) \cup Range(GetDependents(g, n)) : n \in S},
                 k - 1)

reachesExportedSymbol(g, startID, maxDepth) ==
    /\ maxDepth > 0
    /\ \E n \in HopBall(g, {startID}, maxDepth) \ {startID} :
           n \in DOMAIN g.nodes /\ isExported(g.nodes[n].name)

isDocRelevantNode(g, id) ==
    isExported(g.nodes[id].name) \/ reachesExportedSymbol(g, id, 2)

CreateChunk(g, id) ==
    [id |-> id, filePath |-> g.nodes[id].filePath, name |-> g.nodes[id].name,
     unitType |-> g.nodes[id].unitType, hash |-> g.nodes[id].hash,
     deps |-> Len(GetDependencies(g, id)), usedBy |-> Len(GetDependents(g, id))]

shouldSegmentChunk(unitType, lines) ==
    unitType \in {"function", "method"} /\ lines > segmentThreshold

\* The loop of createSymbolChunksForNode: segment idx starts at line
\* idx * (segmentLines - segmentOverlap) and exists while that is inside the body.
SegmentCount(lines) ==
    Cardinality({idx \in 0..(maxSegments - 1) : idx * (segmentLines - segmentOverlap) < lines})

createSymbolChunksForNode(g, id) ==
    LET base == CreateChunk(g, id)
    IN  IF ~shouldSegmentChunk(base.unitType, g.nodes[id].lines) THEN {base}
        ELSE {base} \cup
             {[base EXCEPT !.id = SegID(id, k), !.unitType = "symbol_segment",
                           !.hash = SegHash(base.hash, k)] :
                 k \in 1..SegmentCount(g.nodes[id].lines)}

RECURSIVE ConcatHashes(_, _)
ConcatHashes(g, ids) ==
    IF ids = <<>> THEN <<>>
    ELSE g.nodes[Head(ids)].hash \o ConcatHashes(g, Tail(ids))

\* The file_module chunk of PrepareChunksForFiles; members lists the relevant
\* nodes of the file in the order the map iteration delivered them.
FileChunk(g, path, members) ==
    [id |-> path, filePath |-> path, name |-> FileBase(path),
     unitType |-> "file_module", hash |-> ConcatHashes(g, members),
     deps |-> Cardinality({g.nodes[d].name :
                 d \in UNION {Range(GetDependencies(g, n)) : n \in Range(members)}}),
     usedBy |-> Cardinality({g.nodes[d].name :
                 d \in UNION {Range(GetDependents(g, n)) : n \in Range(members)}})]

chunkPriority(c) ==
    (IF c.unitType = "file_module" THEN 5 ELSE 40)
    + (IF isExported(c.name) THEN 20 ELSE 0)
    + (IF c.unitType \in {"function", "method", "struct", "interface"} THEN 12
       ELSE IF c.unitType \in {"constant", "variable"} THEN 4 ELSE 0)
    + minInt(c.deps, 8) + minInt(c.usedBy, 8)

ChunkLess(a, b) ==
    IF chunkPriority(a) = chunkPriority(b)
    THEN IF a.id = b.id THEN HashLess(a.hash, b.hash)
         ELSE RankIn(ChunkIDOrder, a.id) < RankIn(ChunkIDOrder, b.id)
    ELSE chunkPriority(a) > chunkPriority(b)

sortChunksByPriority(chunks) == SortSeq(chunks, ChunkLess)

\* The relevant nodes of file f, and the orders in which the iteration over the
\* map e.graph.Nodes can deliver them: ord gives every file its member list.
RelevantNodes(g, f) ==
    {id \in DOMAIN g.nodes : g.nodes[id].filePath = f /\ isDocRelevantNode(g, id)}

MemberOrders(g, files) ==
    {ord \in [files -> UNION {IterationOrders(RelevantNodes(g, f)) : f \in files}] :
        \A f \in files : Range(ord[f]) = RelevantNodes(g, f)
                         /\ Len(ord[f]) = Cardinality(RelevantNodes(g, f))}

PrepareChunksForFiles(g, files, ord) ==
    LET symbolChunks ==
            UNION {createSymbolChunksForNode(g, id) :
                      id \in UNION {Range(ord[f]) : f \in files}}
        fileChunks ==
            {FileChunk(g, f, ord[f]) : f \in {p \in files : ord[p] # <<>>}}
    IN  sortChunksByPriority(SetToSeq(symbolChunks \cup fileChunks))

GraphFiles(g) == {g.nodes[id].filePath : id \in DOMAIN g.nodes}

PrepareSearchChunks(g, ord) == PrepareChunksForFiles(g, GraphFiles(g), ord)

containsChunkID(chunks, id) == \E i \in 1..Len(chunks) : chunks[i].id = id

targetFiles(max) ==
    IF max >= 8 THEN max \div 4 ELSE IF max >= 4 THEN 1 ELSE 0

targetSymbols_IgnoresFiles(max) == max

targetSymbols(max) == max - targetFiles(max)

Take(s, n) == SubSeq(s, 1, minInt(Len(s), n))

RECURSIVE Backfill(_, _, _)
Backfill(out, pool, max) ==
    IF pool = <<>> \/ Len(out) >= max THEN out
    ELSE IF containsChunkID(out, Head(pool).id) THEN Backfill(out, Tail(pool), max)
    ELSE Backfill(Append(out, Head(pool)), Tail(pool), max)

limitChunksByBudget(chunks, max) ==
    IF max <= 0 \/ Len(chunks) <= max THEN chunks
    ELSE LET symbols == sortChunksByPriority(
                            SelectSeq(chunks, LAMBDA c : c.unitType # "file_module"))
             files == sortChunksByPriority(
                            SelectSeq(chunks, LAMBDA c : c.unitType = "file_module"))
             out0 == Take(symbols, targetSymbols(max)) \o Take(files, targetFiles(max))
             out1 == IF Len(out0) < max /\ Len(symbols) > Len(out0)
                     THEN Backfill(out0, symbols, max) ELSE out0
         IN  IF Len(out1) < max THEN Backfill(out1, files, max) ELSE out1

\* The chunk lists PrepareChunksForFiles can return for the files of a graph,
\* one per iteration order.
PreparedLists ==
    [gn \in EngineGraphNames |->
        [files \in SUBSET IndexFiles |->
            {PrepareChunksForFiles(EngineGraph(gn), files, ord) :
                ord \in MemberOrders(EngineGraph(gn), files)}]]

\* ... and what limitChunksByBudget makes of them under each budget.
BudgetedLists ==
    [gn \in EngineGraphNames |->
        [files \in SUBSET IndexFiles |->
            [max \in 0..MaxBudget |->
                {limitChunksByBudget(p, max) : p \in PreparedLists[gn][files]}]]]

\* ---- MemoryIndex.  An index value is [items, indexByID, hashes]; an item is
\* [chunk, fresh], where fresh records that the item was stored by the current
\* run (the embedding vector itself is not modelled).  The ids the engine
\* graphs yield hold no surrounding white space, so strings.TrimSpace leaves
\* them as they are.

CurrentIndex == [items |-> mItems, indexByID |-> mIndexByID, hashes |-> mHashes]

\* strings.TrimSpace on a chunk ID or file path: one ID with surrounding white
\* space is in use, every other ID and path holds none
PaddedID == " id1"

TrimID(id) == IF id = PaddedID THEN "id1" ELSE id

RECURSIVE MemoryIndexAdd(_, _)
MemoryIndexAdd(ix, items) ==
    IF items = <<>> THEN ix
    ELSE LET item == Head(items)
             id == TrimID(item.chunk.id)
             next ==
               IF id = "" THEN ix
               ELSE IF id \in DOMAIN ix.indexByID
                    THEN [items |-> [ix.items EXCEPT ![ix.indexByID[id]] = item],
                          indexByID |-> ix.indexByID,
                          hashes |-> (id :> item.chunk.hash) @@ ix.hashes]
                    ELSE [items |-> Append(ix.items, item),
                          indexByID |-> (id :> Len(ix.items) + 1) @@ ix.indexByID,
                          hashes |-> (id :> item.chunk.hash) @@ ix.hashes]
         IN  MemoryIndexAdd(next, Tail(items))

\* The position the rebuild loop of Delete leaves for id: the last one holding it.
LastPosition(items, id) ==
    CHOOSE i \in 1..Len(items) :
        /\ items[i].chunk.id = id
        /\ \A j \in (i + 1)..Len(items) : items[j].chunk.id # id

MemoryIndexDelete_KeepsItems(ix, ids) == ix

MemoryIndexDelete(ix, ids) ==
    IF ids = {} THEN ix
    ELSE LET idSet == {TrimID(x) : x \in ids} \ {""}
             Kept(item) ==
                 /\ item.chunk.id \notin idSet
                 /\ (TrimID(item.chunk.filePath) = ""
                     \/ TrimID(item.chunk.filePath) \notin idSet)
             newItems == SelectSeq(ix.items, Kept)
             removedIDs == {ix.items[i].chunk.id :
                               i \in {j \in 1..Len(ix.items) : ~Kept(ix.items[j])}}
         IN  [items |-> newItems,
              indexByID |-> [id \in {newItems[i].chunk.id : i \in 1..Len(newItems)} |->
                                LastPosition(newItems, id)],
              hashes |-> [id \in DOMAIN ix.hashes \ removedIDs |-> ix.hashes[id]]]

GetContentHashes(ix, ids) ==
    [id \in {x \in {TrimID(y) : y \in ids} : x # "" /\ x \in DOMAIN ix.hashes} |->
        ix.hashes[id]]

filterChunksForEmbedding(ix, chunks) ==
    IF Len(chunks) = 0 THEN <<>>
    ELSE LET ids == {chunks[i].id : i \in 1..Len(chunks)} \ {""}
             existing == GetContentHashes(ix, ids)
         IN  IF ids = {} \/ DOMAIN existing = {} THEN chunks
             ELSE SelectSeq(chunks, LAMBDA c :
                      /\ c.id # ""
                      /\ ~(/\ c.id \in DOMAIN existing
                           /\ existing[c.id] # <<>>
                           /\ c.hash # <<>>
                           /\ existing[c.id] = c.hash))

\* embedChunks: the outcome is the index, the error, the chunks handed to the
\* embedder and the number of vector items handed to index.Add.
embedChunks(ix, chunks, embedOk) ==
    LET todo == filterChunksForEmbedding(ix, chunks)
    IN  IF Len(todo) = 0
        THEN [ix |-> ix, err |-> "", embedded |-> <<>>, added |-> 0]
        ELSE IF ~embedOk
        THEN [ix |-> ix, err |-> "embed", embedded |-> todo, added |-> 0]
        ELSE [ix |-> MemoryIndexAdd(ix, [i \in 1..Len(todo) |->
                                             [chunk |-> todo[i], fresh |-> TRUE]]),
              err |-> "", embedded |-> todo, added |-> Len(todo)]

\* What was in the index when a run starts is no longer fresh.
Aged(ix) ==
    [ix EXCEPT !.items = [i \in 1..Len(ix.items) |-> [ix.items[i] EXCEPT !.fresh = FALSE]]]

\* The chunks handed to the embedder, each with the hash the index held for
\* its id when the run started (<<>> when it held none).
WithStoredHash(chunks, hashes) ==
    [i \in 1..Len(chunks) |->
        [id |-> chunks[i].id, hash |-> chunks[i].hash,
         stored |-> IF chunks[i].id \in DOMAIN hashes THEN hashes[chunks[i].id] ELSE <<>>]]

ItemIDs(items) == {items[i].chunk.id : i \in 1..Len(items)}

InitIndex ==
    /\ IdleStore
    /\ IdleRetrieval
    /\ IdleGraph
    /\ IdleDoc
    /\ IdleChain
    /\ IdleCalib
    /\ IdlePlan
    /\ IdleRun
    /\ IdleLoad
    /\ IdleGen
    /\ IdleHealth
    /\ IdleBudget
    /\ IdleHydrate
    /\ IdleMem
    /\ eGraph = "two_files"
    /\ mItems = <<>>
    /\ mIndexByID = EmptyFn
    /\ mHashes = EmptyFn
    /\ iRun = NoRun

\* IndexAllWithOptions on an engine built on graph gn (NewEngine); chunks is
\* what PrepareSearchChunks and limitChunksByBudget delivered.
IndexAllWithOptions(gn, max, embedOk, chunks) ==
    LET r == embedChunks(Aged(CurrentIndex), chunks, embedOk)
    IN  /\ iRun.n < MaxRuns
        /\ eGraph' = gn
        /\ mItems' = r.ix.items
        /\ mIndexByID' = r.ix.indexByID
        /\ mHashes' = r.ix.hashes
        /\ iRun' = [op |-> "all", n |-> iRun.n + 1, updated |-> {},
                    max |-> max, err |-> r.err, preIDs |-> ItemIDs(mItems),
                    budgeted |-> Len(chunks),
                    embedded |-> WithStoredHash(r.embedded, mHashes),
                    added |-> r.added]
        /\ UNCHANGED <<storeVars, retrievalVars, graphVars, docVars, chainVars, calibVars, planVars, runVars, loadVars, genVars, healthVars, budgetVars, hydrateVars, memVars>>

\* IndexIncrementalWithOptions on an engine built on graph gn; chunks is what
\* PrepareChunksForFiles and limitChunksByBudget delivered for updatedFiles.
IndexIncrementalWithOptions(gn, updatedFiles, deletedFiles, max, embedOk, chunks) ==
    LET ix0 == Aged(CurrentIndex)
        ix1 == IF deletedFiles # {} THEN MemoryIndexDelete(ix0, deletedFiles) ELSE ix0
        ix2 == IF updatedFiles # {} THEN MemoryIndexDelete(ix1, updatedFiles) ELSE ix1
        r == IF updatedFiles # {} /\ Len(chunks) > 0 THEN embedChunks(ix2, chunks, embedOk)
             ELSE [ix |-> ix2, err |-> "", embedded |-> <<>>, added |-> 0]
    IN  /\ iRun.n < MaxRuns
        /\ eGraph' = gn
        /\ mItems' = r.ix.items
        /\ mIndexByID' = r.ix.indexByID
        /\ mHashes' = r.ix.hashes
        /\ iRun' = [op |-> "incremental", n |-> iRun.n + 1, updated |-> updatedFiles,
                    max |-> max, err |-> r.err, preIDs |-> ItemIDs(mItems),
                    budgeted |-> IF updatedFiles # {} THEN Len(chunks) ELSE 0,
                    embedded |-> WithStoredHash(r.embedded, mHashes),
                    added |-> r.added]
        /\ UNCHANGED <<storeVars, retrievalVars, graphVars, docVars, chainVars, calibVars, planVars, runVars, loadVars, genVars, healthVars, budgetVars, hydrateVars, memVars>>

\* IndexAll, and the one other caller (cmd/docod), run without a budget.
IndexAll ==
    \E gn \in EngineGraphNames, embedOk \in BOOLEAN :
        \E chunks \in BudgetedLists[gn][GraphFiles(EngineGraph(gn))][0] :
            IndexAllWithOptions(gn, 0, embedOk, chunks)

\* The graph stage reports a changed path as deleted when the file is gone,
\* and then the graph holds no symbol of it (splitUpdatedDeleted).
IndexIncremental ==
    \E gn \in EngineGraphNames, updatedFiles \in SUBSET IndexFiles,
       max \in 0..MaxBudget, embedOk \in BOOLEAN :
        \E chunks \in BudgetedLists[gn][updatedFiles][max],
           deletedFiles \in SUBSET (IndexFiles \ (updatedFiles \cup GraphFiles(EngineGraph(gn)))) :
            IndexIncrementalWithOptions(gn, updatedFiles, deletedFiles, max, embedOk, chunks)

NextIndex ==
    \/ IndexAll
    \/ IndexIncremental

SpecIndex == InitIndex /\ [][NextIndex]_vars

\* ---- Claims on the engine and its index

\* C6: after IndexIncrementalWithOptions has returned successfully, the index
\* holds no item that was stored before the call and whose chunk id is one of
\* the updated file paths: every item under such an id was stored by this run.
C6_NoStaleFileChunk ==
    (iRun.op = "incremental" /\ iRun.err = "") =>
        \A i \in 1..Len(mItems) :
            mItems[i].chunk.id \in iRun.updated => mItems[i].fresh

\* The file chunk of pkg/a.go was in the index before a successful incremental
\* run on pkg/a.go and is in the index after it.
C6_Witness ==
    /\ iRun.op = "incremental"
    /\ iRun.err = ""
    /\ "pkg/a.go" \in iRun.updated
    /\ "pkg/a.go" \in iRun.preIDs
    /\ "pkg/a.go" \in ItemIDs(mItems)

\* C7: in an incremental run no chunk reaches the embedder whose content hash
\* equals the hash the index held for the same chunk id before the run.
C7_UnchangedNotReembedded ==
    iRun.op = "incremental" =>
        \A i \in 1..Len(iRun.embedded) :
            iRun.embedded[i].stored # iRun.embedded[i].hash

\* C8: with MaxChunksPerRun = max > 0 an incremental run hands at most max
\* chunks on from limitChunksByBudget and stores at most max vector items; on
\* the two-file graph, an empty index and max = 1 a successful run on both
\* files leaves exactly one vector item.
C8_BudgetRespected ==
    /\ (iRun.op = "incremental" /\ iRun.max > 0) =>
          /\ iRun.budgeted <= iRun.max
          /\ iRun.added <= iRun.max
          /\ Cardinality({i \in 1..Len(mItems) : mItems[i].fresh}) <= iRun.max
    /\ (/\ iRun.op = "incremental"
        /\ eGraph = "two_files"
        /\ iRun.updated = {"pkg/a.go", "pkg/b.go"}
        /\ iRun.max = 1
        /\ iRun.err = ""
        /\ iRun.preIDs = {}) => Len(mItems) = 1

\* A budgeted run that had more chunks than its budget and stored exactly the
\* budget, and the run of the test.
C8_Witness ==
    /\ iRun.op = "incremental"
    /\ eGraph = "two_files"
    /\ iRun.updated = {"pkg/a.go", "pkg/b.go"}
    /\ iRun.max = 1
    /\ iRun.err = ""
    /\ iRun.preIDs = {}
    /\ iRun.added = 1
    /\ Len(mItems) = 1

-----------------------------------------------------------------------------
(* graph.Graph, the resolver chain and the graph stage of the pipeline      *)
(* (src/internal/graph/graph.go, src/unnamed/part_009,                      *)
(*  src/internal/pipeline/incremental_sync.go)                              *)

\* Longest id list AddUnit is followed to under one name-index key.
MaxIndexEntries == 2

\* Largest number of changed files in one incremental graph update.
MaxChanges == 2

\* A name is a sequence of tokens, so that prefixes can be trimmed and keys
\* concatenated: "*Foo" is <<"*", "Foo">>, "p.Foo" is <<"p", ".", "Foo">>.
Rel(target, kind) == [target |-> target, kind |-> kind]

GUnit(id, name, pkg, file, rels) ==
    [id |-> id, name |-> name, pkg |-> pkg, file |-> file, rels |-> rels]

\* The extractor derives an id from file path, name and start line, so a unit
\* keeps its id across the versions of its file.
\* type Foo in package p
UnitFoo == GUnit("foo", <<"Foo">>, "p", "a.go", <<>>)
\* func Bar() calling Foo and an unknown Baz
UnitBarCalls ==
    GUnit("bar", <<"Bar">>, "p", "b.go",
          <<Rel(<<"Foo">>, "calls"), Rel(<<"Baz">>, "calls")>>)
\* func Bar(a *Foo, b Foo, c []*Foo): one uses_type relation per parameter
UnitBarTypes ==
    GUnit("bar", <<"Bar">>, "p", "b.go",
          <<Rel(<<"*", "Foo">>, "uses_type"), Rel(<<"Foo">>, "uses_type"),
            Rel(<<"[]", "*", "Foo">>, "uses_type")>>)
\* type Foo in package q, referring to p.Bar
UnitQFoo ==
    GUnit("qfoo", <<"Foo">>, "q", "c.go", <<Rel(<<"p", ".", "Bar">>, "calls")>>)

UnitUniverse == {UnitFoo, UnitBarCalls, UnitBarTypes, UnitQFoo}

\* The source files in the order the crawler and git report them.
GraphFileOrder == <<"a.go", "b.go", "c.go">>

\* What ExtractFromFile can return for a file that exists and parses.
FileVersions(path) ==
    CASE path = "a.go" -> {<<UnitFoo>>, <<>>}
      [] path = "b.go" -> {<<UnitBarCalls>>, <<UnitBarTypes>>}
      [] path = "c.go" -> {<<UnitQFoo>>}

NewGraph == [nodes |-> EmptyFn, index |-> EmptyFn]

IndexAppend(index, key, id) ==
    IF key \in DOMAIN index THEN [index EXCEPT ![key] = Append(@, id)]
    ELSE (key :> <<id>>) @@ index

QualifiedKey(pkg, name) == <<pkg, ".">> \o name

AddUnit(g, unit) ==
    LET byName == IndexAppend(g.index, unit.name, unit.id)
    IN  [nodes |-> (unit.id :> unit) @@ g.nodes,
         index |-> IF unit.pkg # ""
                   THEN IndexAppend(byName, QualifiedKey(unit.pkg, unit.name), unit.id)
                   ELSE byName]

RECURSIVE AddUnits(_, _)
AddUnits(g, units) ==
    IF units = <<>> THEN g ELSE AddUnits(AddUnit(g, Head(units)), Tail(units))

TrimPrefix(s, prefix) == IF s # <<>> /\ Head(s) = prefix THEN Tail(s) ELSE s

resolveTarget(index, targetName, sourcePackage) ==
    LET cleanName == TrimPrefix(TrimPrefix(targetName, "*"), "[]")
        localKey == QualifiedKey(sourcePackage, cleanName)
    IN  IF cleanName \in DOMAIN index THEN index[cleanName]
        ELSE IF targetName \in DOMAIN index THEN index[targetName]
        ELSE IF localKey \in DOMAIN index THEN index[localKey]
        ELSE <<>>

\* The edges LinkRelations appends for one source node.
RECURSIVE EdgesOfRelations(_, _, _, _)
EdgesOfRelations(index, sourceID, pkg, rels) ==
    IF rels = <<>> THEN <<>>
    ELSE LET targets == resolveTarget(index, Head(rels).target, pkg)
         IN  [i \in 1..Len(targets) |->
                 [from |-> sourceID, to |-> targets[i], kind |-> Head(rels).kind]]
             \o EdgesOfRelations(index, sourceID, pkg, Tail(rels))

\* LinkRelations: the edge list is reset and rebuilt; ord is the order in
\* which the iteration over the map g.Nodes delivers the ids.
RECURSIVE LinkRelations(_, _, _)
LinkRelations(nodes, index, ord) ==
    IF ord = <<>> THEN <<>>
    ELSE EdgesOfRelations(index, Head(ord), nodes[Head(ord)].pkg, nodes[Head(ord)].rels)
         \o LinkRelations(nodes, index, Tail(ord))

\* The edges of cands that are not in the list yet, appended in order.
RECURSIVE AppendNewEdges(_, _)
AppendNewEdges(edges, cands) ==
    IF cands = <<>> THEN edges
    ELSE IF Head(cands) \in Range(edges) THEN AppendNewEdges(edges, Tail(cands))
    ELSE AppendNewEdges(Append(edges, Head(cands)), Tail(cands))

\* GoTypesResolver.ResolveGraphRelations over the unresolved list; typed gives
\* for each unresolved relation the ids go/types resolved it to.
RECURSIVE ResolveGraphRelations(_, _, _)
ResolveGraphRelations(edges, unresolved, typed) ==
    IF unresolved = <<>> THEN edges
    ELSE LET ur == Head(unresolved)
             cands == [i \in 1..Len(typed[ur]) |->
                          [from |-> ur.from, to |-> typed[ur][i], kind |-> ur.kind]]
         IN  ResolveGraphRelations(AppendNewEdges(edges, cands), Tail(unresolved), typed)

\* The Graph of graph.go keeps no list of unresolved relations: LinkRelations
\* drops a relation that matches no index key.
GraphUnresolved == <<>>

\* ResolverChain.Run of NewDefaultChain: the heuristic resolver (LinkRelations),
\* then the types resolver.
ResolverChainRun(nodes, index, ord) ==
    ResolveGraphRelations(LinkRelations(nodes, index, ord), GraphUnresolved, EmptyFn)

\* rebuildIndices: the name indices rebuilt from the current symbols.
RebuildIndices(nodes, ord) ==
    AddUnits(NewGraph, [i \in 1..Len(ord) |-> nodes[ord[i]]]).index

\* The orders in which the iteration over a node map can deliver the ids.
NodeOrders(nodes) == IterationOrders(DOMAIN nodes)

\* The same for LinkRelations, which appends nothing for a node without
\* relations: the orders of the nodes that have some.
SourceOrders(nodes) == IterationOrders({id \in DOMAIN nodes : nodes[id].rels # <<>>})

InitGraph ==
    /\ IdleStore
    /\ IdleRetrieval
    /\ IdleIndex
    /\ IdleDoc
    /\ IdleChain
    /\ IdleCalib
    /\ IdlePlan
    /\ IdleRun
    /\ IdleLoad
    /\ IdleGen
    /\ IdleHealth
    /\ IdleBudget
    /\ IdleHydrate
    /\ IdleMem
    /\ gNodes = EmptyFn
    /\ nameIndex = EmptyFn
    /\ gEdges = <<>>
    /\ gLinked = FALSE
    /\ gUpdate = NoUpdate

UnitKeys(unit) ==
    {unit.name} \cup (IF unit.pkg # "" THEN {QualifiedKey(unit.pkg, unit.name)} ELSE {})

\* Graph.AddUnit called on the graph.
GraphAddUnit ==
    \E unit \in UnitUniverse :
        /\ \A key \in UnitKeys(unit) :
               key \in DOMAIN nameIndex => Len(nameIndex[key]) < MaxIndexEntries
        /\ LET g == AddUnit([nodes |-> gNodes, index |-> nameIndex], unit)
           IN  /\ gNodes' = g.nodes
               /\ nameIndex' = g.index
        /\ gLinked' = FALSE
        /\ gUpdate' = NoUpdate
        /\ UNCHANGED gEdges
        /\ UNCHANGED <<storeVars, retrievalVars, indexVars, docVars, chainVars, calibVars, planVars, runVars, loadVars, genVars, healthVars, budgetVars, hydrateVars, memVars>>

\* runResolverChainStage / ResolverChain.Run on the graph as it is.
RunResolverChain ==
    \E ord \in SourceOrders(gNodes) :
        /\ gEdges' = ResolverChainRun(gNodes, nameIndex, ord)
        /\ gLinked' = TRUE
        /\ UNCHANGED <<gNodes, nameIndex, gUpdate>>
        /\ UNCHANGED <<storeVars, retrievalVars, indexVars, docVars, chainVars, calibVars, planVars, runVars, loadVars, genVars, healthVars, budgetVars, hydrateVars, memVars>>

\* The units a crawl delivers: the files present, each in one of its versions,
\* in path order.
RECURSIVE CrawlResults(_)
CrawlResults(files) ==
    IF files = <<>> THEN {<<>>}
    ELSE LET rest == CrawlResults(Tail(files))
         IN  rest \cup {units \o r : units \in FileVersions(Head(files)), r \in rest}

\* graphUpdateStage with plan.FullResync: Indexer.BuildGraph (AddUnit for every
\* unit, then LinkRelations), then the resolver chain, whose LinkRelations
\* resets the edge list BuildGraph left.
FullResync ==
    \E units \in CrawlResults(GraphFileOrder) :
        LET g == AddUnits(NewGraph, units)
        IN  \E ord \in SourceOrders(g.nodes) :
                /\ gNodes' = g.nodes
                /\ nameIndex' = g.index
                /\ gEdges' = ResolverChainRun(g.nodes, g.index, ord)
                /\ gLinked' = TRUE
                /\ gUpdate' = NoUpdate
                /\ UNCHANGED <<storeVars, retrievalVars, indexVars, docVars, chainVars, calibVars, planVars, runVars, loadVars, genVars, healthVars, budgetVars, hydrateVars, memVars>>

\* One changed file of the incremental update: its nodes are removed; if the
\* file still exists and parses, its units are added.  outcome.kind is
\* "deleted", "parse_error" or "units" (with the extracted units).
RemoveFileNodes(nodes, path) ==
    [id \in {x \in DOMAIN nodes : nodes[x].file # path} |-> nodes[id]]

ApplyChange(g, path, outcome) ==
    LET removed == [nodes |-> RemoveFileNodes(g.nodes, path), index |-> g.index]
    IN  IF outcome.kind \in {"deleted", "parse_error"} THEN removed
        ELSE AddUnits(removed, outcome.units)

RECURSIVE ApplyChanges(_, _, _)
ApplyChanges(g, paths, outcomes) ==
    IF paths = <<>> THEN g
    ELSE ApplyChanges(ApplyChange(g, Head(paths), outcomes[Head(paths)]),
                      Tail(paths), outcomes)

ChangeOutcomes(path) ==
    {[kind |-> "deleted", units |-> <<>>], [kind |-> "parse_error", units |-> <<>>]}
    \cup {[kind |-> "units", units |-> units] : units \in FileVersions(path)}

ChangeSets ==
    UNION {{outcomes \in [paths -> UNION {ChangeOutcomes(p) : p \in paths}] :
               \A p \in paths : outcomes[p] \in ChangeOutcomes(p)} :
           paths \in {ps \in SUBSET Range(GraphFileOrder) :
                         Cardinality(ps) \in 1..MaxChanges}}

\* graphUpdateStage without FullResync: every changed .go file is applied to
\* the loaded graph, the indices are rebuilt and the resolver chain runs.
GraphUpdateStage ==
    \E outcomes \in ChangeSets :
        LET paths == SelectSeq(GraphFileOrder, LAMBDA p : p \in DOMAIN outcomes)
            g == ApplyChanges([nodes |-> gNodes, index |-> nameIndex], paths, outcomes)
        IN  \E ord1 \in NodeOrders(g.nodes), ord2 \in SourceOrders(g.nodes) :
                LET rebuilt == RebuildIndices(g.nodes, ord1)
                IN  /\ gNodes' = g.nodes
                    /\ nameIndex' = rebuilt
                    /\ gEdges' = ResolverChainRun(g.nodes, rebuilt, ord2)
                    /\ gLinked' = TRUE
                    /\ gUpdate' = [done |-> TRUE, before |-> gNodes,
                                   outcomes |-> outcomes]
                    /\ UNCHANGED <<storeVars, retrievalVars, indexVars, docVars, chainVars, calibVars, planVars, runVars, loadVars, genVars, healthVars, budgetVars, hydrateVars, memVars>>

NextGraph ==
    \/ GraphAddUnit
    \/ RunResolverChain
    \/ FullResync
    \/ GraphUpdateStage

SpecGraph == InitGraph /\ [][NextGraph]_vars

\* ---- Claims on the graph

\* How often each edge occurs in an edge list.
EdgeCounts(edges) ==
    [e \in Range(edges) |-> Cardinality({i \in 1..Len(edges) : edges[i] = e})]

\* The chain run once on a fresh graph that holds only the given symbols.
FreshChainEdges(nodes) ==
    LET ord == SetToSeq(DOMAIN nodes)
        fresh == AddUnits(NewGraph, [i \in 1..Len(ord) |-> nodes[ord[i]]])
    IN  ResolverChainRun(fresh.nodes, fresh.index, ord)

\* C9: whatever mutations preceded it, after a resolver-chain run the edge list
\* holds the same edges, each as often, as the chain run once on a fresh graph
\* holding only the final symbols (the order of the list follows the map
\* iteration and is not compared).
C9_ChainEqualsFreshRebuild ==
    gLinked => EdgeCounts(gEdges) = EdgeCounts(FreshChainEdges(gNodes))

\* C10: after the resolver chain has run, no two entries of the edge list have
\* the same (from, to, kind).
C10_EdgeTriplesUnique ==
    gLinked => \A i, j \in 1..Len(gEdges) : i # j => gEdges[i] # gEdges[j]

\* How often id is listed under key in the name index.
IndexCount(key, id) ==
    IF key \in DOMAIN nameIndex
    THEN Cardinality({i \in 1..Len(nameIndex[key]) : nameIndex[key][i] = id})
    ELSE 0

AllIndexKeys ==
    DOMAIN nameIndex \cup UNION {UnitKeys(gNodes[id]) : id \in DOMAIN gNodes}

AllIndexIDs ==
    DOMAIN gNodes \cup UNION {Range(nameIndex[key]) : key \in DOMAIN nameIndex}

\* C11: after any sequence of graph operations an id is listed under a key of
\* the name index exactly once if a symbol with that id and that name (or
\* package.name) is in the symbol map, and not at all otherwise.
C11_IndexConsistent ==
    \A key \in AllIndexKeys, id \in AllIndexIDs :
        IndexCount(key, id) =
            IF id \in DOMAIN gNodes /\ key \in UnitKeys(gNodes[id]) THEN 1 ELSE 0

-----------------------------------------------------------------------------
(***************************************************************************)
(* Document model: generator.DocModel, its normalisation, validation and    *)
(* persistence.  A Go string is a sequence of tokens: every maximal run of   *)
(* letters and digits is one token, every other character is a token of its  *)
(* own, so that trimming, splitting, prefix tests and concatenation are the  *)
(* operations the code performs.                                             *)
(***************************************************************************)

MaxSections == 2
MaxMdLines == 3
MaxChunks == 2
MaxAffected == 1

docModelSchemaVersion == <<"v0.1.0">>

canonicalSectionOrder == << <<"overview">>, <<"key", "-", "features">>, <<"development">> >>

defaultMaxSectionChars == 8000
summaryMaxLen == 120

Separators == {" ", "\n", "#", "-", ".", ":", "|"}

IsSpace(t) == t \in {" ", "\n"}

\* unicode letters and digits as seen by the r >= 'a' && r <= 'z' tests, after ToLower
IsAlnum(t) == t \notin Separators

\* strings.ToLower on one token
LowerToken(t) ==
    CASE t = "A" -> "a"
      [] t = "X" -> "x"
      [] t = "Y" -> "y"
      [] t = "Overview" -> "overview"
      [] t = "Key" -> "key"
      [] t = "Features" -> "features"
      [] t = "Development" -> "development"
      [] t = "Introduction" -> "introduction"
      [] t = "TBD" -> "tbd"
      [] t = "Context" -> "context"
      [] OTHER -> t

\* strings.ToUpper(part[:1]) + part[1:] on one token
CapitalToken(t) ==
    CASE t = "a" -> "A"
      [] t = "x" -> "X"
      [] t = "y" -> "Y"
      [] t = "overview" -> "Overview"
      [] t = "key" -> "Key"
      [] t = "features" -> "Features"
      [] t = "development" -> "Development"
      [] t = "introduction" -> "Introduction"
      [] t = "section" -> "Section"
      [] t = "body" -> "Body"
      [] t = "hello" -> "Hello"
      [] OTHER -> t

\* number of bytes of one token
TokenBytes(t) ==
    CASE t \in Separators -> 1
      [] t \in {"a", "A", "x", "X", "y", "Y", "2", "3", "4", "5"} -> 1
      [] t \in {"TBD", "key", "Key"} -> 3
      [] t \in {"body", "Body"} -> 4
      [] t \in {"hello", "Hello"} -> 5
      [] OTHER -> 8

RECURSIVE ByteLen(_)
ByteLen(s) == IF s = <<>> THEN 0 ELSE TokenBytes(Head(s)) + ByteLen(Tail(s))

ToLower(s) == [i \in 1..Len(s) |-> LowerToken(s[i])]

RECURSIVE TrimLeftSet(_, _)
TrimLeftSet(s, cut) ==
    IF s = <<>> \/ Head(s) \notin cut THEN s ELSE TrimLeftSet(Tail(s), cut)

RECURSIVE TrimRightSet(_, _)
TrimRightSet(s, cut) ==
    IF s = <<>> \/ s[Len(s)] \notin cut THEN s
    ELSE TrimRightSet(SubSeq(s, 1, Len(s) - 1), cut)

\* strings.TrimSpace
TrimSpace(s) == TrimRightSet(TrimLeftSet(s, {" ", "\n"}), {" ", "\n"})

\* strings.Trim(s, "-")
TrimDashes(s) == TrimRightSet(TrimLeftSet(s, {"-"}), {"-"})

\* strings.HasPrefix(s, "#")
HasHashPrefix(s) == s # <<>> /\ Head(s) = "#"

\* strings.Split(s, sep)
RECURSIVE Split(_, _)
Split(s, sep) ==
    IF \A i \in 1..Len(s) : s[i] # sep THEN <<s>>
    ELSE LET k == CHOOSE i \in 1..Len(s) : s[i] = sep /\ \A j \in 1..(i - 1) : s[j] # sep
         IN  <<SubSeq(s, 1, k - 1)>> \o Split(SubSeq(s, k + 1, Len(s)), sep)

\* strings.Join(parts, sep)
RECURSIVE Join(_, _)
Join(parts, sep) ==
    IF parts = <<>> THEN <<>>
    ELSE IF Len(parts) = 1 THEN parts[1]
    ELSE parts[1] \o <<sep>> \o Join(Tail(parts), sep)

\* strings.Repeat("#", n)
RepeatHash(n) == [i \in 1..n |-> "#"]

\* fmt's %d for the small numbers that occur
Decimal(n) ==
    CASE n = 0 -> "0" [] n = 1 -> "1" [] n = 2 -> "2" [] n = 3 -> "3"
      [] n = 4 -> "4" [] n = 5 -> "5" [] OTHER -> "9"

max(a, b) == IF a > b THEN a ELSE b

\* line[:120], a prefix of whole tokens
RECURSIVE TakeBytes(_, _)
TakeBytes(s, n) ==
    IF s = <<>> \/ TokenBytes(Head(s)) > n THEN <<>>
    ELSE <<Head(s)>> \o TakeBytes(Tail(s), n - TokenBytes(Head(s)))

RECURSIVE FirstProseLine(_)
FirstProseLine(lines) ==
    IF lines = <<>> THEN <<>>
    ELSE LET line == TrimSpace(Head(lines))
         IN  IF line = <<>> \/ HasHashPrefix(line) THEN FirstProseLine(Tail(lines))
             ELSE IF ByteLen(line) > summaryMaxLen THEN TakeBytes(line, summaryMaxLen)
             ELSE line

summarizeContent(content) ==
    LET text == TrimSpace(content)
    IN  IF text = <<>> THEN <<>> ELSE FirstProseLine(Split(text, "\n"))

startsWithHeading(content) == HasHashPrefix(TrimSpace(content))

RECURSIVE SlugRunes(_, _)
SlugRunes(s, prevDash) ==
    IF s = <<>> THEN <<>>
    ELSE IF IsAlnum(Head(s)) THEN <<Head(s)>> \o SlugRunes(Tail(s), FALSE)
    ELSE IF ~prevDash THEN <<"-">> \o SlugRunes(Tail(s), TRUE)
    ELSE SlugRunes(Tail(s), TRUE)

normalizeSectionID(title) ==
    LET s == ToLower(TrimSpace(title))
        out == TrimDashes(SlugRunes(s, FALSE))
    IN  IF s = <<>> THEN <<"section">>
        ELSE IF out = <<>> THEN <<"section">>
        ELSE out

sectionTitleFromID(id) ==
    IF id = <<"overview">> THEN <<"Overview">>
    ELSE IF id = <<"key", "-", "features">> THEN <<"Key", " ", "Features">>
    ELSE IF id = <<"development">> THEN <<"Development">>
    ELSE LET parts == Split(id, "-")
             cap(p) == IF p = <<>> THEN p ELSE <<CapitalToken(Head(p))>> \o Tail(p)
         IN  Join([i \in 1..Len(parts) |-> cap(parts[i])], " ")

RECURSIVE SourceLines(_)
SourceLines(sources) ==
    IF sources = <<>> THEN <<>>
    ELSE Head(sources).SymbolID \o <<"|">> \o Head(sources).FilePath \o <<"|">>
         \o Head(sources).Relation \o <<"\n">> \o SourceLines(Tail(sources))

\* sha256 is collision free on the inputs of the model: the digest is the text digested
sectionHash(s) ==
    <<"sha256", ":">> \o TrimSpace(s.Title) \o <<"\n">> \o TrimSpace(s.ContentMD)
        \o <<"\n">> \o SourceLines(s.Sources)

RECURSIVE uniqueStrings(_)
uniqueStrings(in) ==
    IF in = <<>> THEN <<>>
    ELSE LET front == uniqueStrings(SubSeq(in, 1, Len(in) - 1))
             v == in[Len(in)]
         IN  IF v \in Range(front) THEN front ELSE Append(front, v)

NilParent == <<>>
NilUpdate == <<>>

\* ModelSect (the optional evidence statistics are never written by the code modelled)
ModelSect(id, title, level, order, parent, content, summary, status, sources) ==
    [ID |-> id, Title |-> title, Level |-> level, Order |-> order, ParentID |-> parent,
     ContentMD |-> content, Summary |-> summary, Status |-> status, Sources |-> sources,
     Hash |-> <<>>, LastUpdated |-> NilUpdate]

WithHash(sec) == [sec EXCEPT !.Hash = sectionHash(sec)]

DefaultStyle ==
    [Tone |-> "technical, objective", Audience |-> "open-source maintainers",
     CodeBlockLanguage |-> "go", FocusMode |-> "semantic",
     AvoidCallGraphNarration |-> TRUE, PreferConceptualDiagrams |-> TRUE,
     PreferTaskOrientedExamples |-> TRUE]

ensurePolicyDefaults(m) ==
    LET st == m.Policies.Style
    IN  [m EXCEPT
            !.Policies.MaxSectionChars = IF @ = 0 THEN defaultMaxSectionChars ELSE @,
            !.Policies.Style =
                [Tone |-> IF st.Tone = "" THEN DefaultStyle.Tone ELSE st.Tone,
                 Audience |-> IF st.Audience = "" THEN DefaultStyle.Audience ELSE st.Audience,
                 CodeBlockLanguage |-> IF st.CodeBlockLanguage = ""
                                       THEN DefaultStyle.CodeBlockLanguage
                                       ELSE st.CodeBlockLanguage,
                 FocusMode |-> IF st.FocusMode = "" THEN DefaultStyle.FocusMode
                               ELSE st.FocusMode,
                 AvoidCallGraphNarration |-> TRUE,
                 PreferConceptualDiagrams |-> TRUE,
                 PreferTaskOrientedExamples |-> TRUE]]

SectionIDs(sections) == {sections[i].ID : i \in 1..Len(sections)}

CanonicalSection(id, order) ==
    LET title == sectionTitleFromID(id)
    IN  WithHash(ModelSect(id, title, 1, order, NilParent,
                           <<"#", " ">> \o title \o <<"\n", "\n", "TBD", ".">>,
                           <<>>, "active", <<>>))

RECURSIVE AppendCanonical(_, _, _)
AppendCanonical(sections, existing, ids) ==
    IF ids = <<>> THEN sections
    ELSE IF Head(ids) \in existing THEN AppendCanonical(sections, existing, Tail(ids))
    ELSE AppendCanonical(Append(sections, CanonicalSection(Head(ids), Len(sections))),
                         existing, Tail(ids))

ensureCanonicalRootSections(m) ==
    [m EXCEPT !.Sections = AppendCanonical(@, SectionIDs(@), canonicalSectionOrder)]

\* (m *DocModel) SectionByID(id) != nil
SectionByID(m, id) == id \in SectionIDs(m.Sections)

RECURSIVE RootsOfSections(_, _)
RootsOfSections(sections, roots) ==
    IF sections = <<>> THEN roots
    ELSE LET s == Head(sections)
         IN  IF s.ParentID = NilParent /\ s.ID \notin Range(roots)
             THEN RootsOfSections(Tail(sections), Append(roots, s.ID))
             ELSE RootsOfSections(Tail(sections), roots)

ensureRootSectionIDs(m) ==
    LET canon == SelectSeq(canonicalSectionOrder, LAMBDA id : SectionByID(m, id))
    IN  [m EXCEPT
            !.Document.RootSectionIDs = RootsOfSections(m.Sections, canon),
            !.Policies.RequiredSectionIDs = IF Len(@) = 0 THEN canonicalSectionOrder ELSE @]

sectionRank(id) ==
    IF \E i \in 1..Len(canonicalSectionOrder) : canonicalSectionOrder[i] = id
    THEN (CHOOSE i \in 1..Len(canonicalSectionOrder) : canonicalSectionOrder[i] = id) - 1
    ELSE Len(canonicalSectionOrder) + 1

\* the less function handed to sort.Slice
SectionLess(a, b) ==
    LET ri == sectionRank(a.ID)
        rj == sectionRank(b.ID)
    IN  IF ri = rj THEN a.Order < b.Order ELSE ri < rj

\* sort.Slice sorts a slice of fewer than seven elements by insertion sort alone
RECURSIVE InsertSection(_, _)
InsertSection(sorted, x) ==
    IF sorted = <<>> THEN <<x>>
    ELSE IF SectionLess(x, sorted[Len(sorted)])
         THEN Append(InsertSection(SubSeq(sorted, 1, Len(sorted) - 1), x), sorted[Len(sorted)])
         ELSE Append(sorted, x)

RECURSIVE SortSections(_)
SortSections(sections) ==
    IF sections = <<>> THEN <<>>
    ELSE InsertSection(SortSections(SubSeq(sections, 1, Len(sections) - 1)),
                       sections[Len(sections)])

reindexSectionOrder(m) ==
    LET sorted == SortSections(m.Sections)
    IN  [m EXCEPT !.Sections = [i \in 1..Len(sorted) |-> [sorted[i] EXCEPT !.Order = i - 1]]]

NormalizeHeading(sec) ==
    LET level == IF sec.Level < 1 \/ sec.Level > 6 THEN 2 ELSE sec.Level
        title == IF sec.Title = <<>> THEN sectionTitleFromID(sec.ID) ELSE sec.Title
        heading == RepeatHash(level) \o <<" ">> \o title
        trimmed == TrimSpace(sec.ContentMD)
        lines == Split(trimmed, "\n")
        content ==
            IF trimmed = <<>> THEN heading \o <<"\n", "\n", "TBD", ".">>
            ELSE IF startsWithHeading(trimmed)
                 THEN Join(<<heading>> \o Tail(lines), "\n")
                 ELSE heading \o <<"\n", "\n">> \o trimmed
        shaped == [sec EXCEPT !.Level = level, !.Title = title, !.ContentMD = content,
                              !.Summary = summarizeContent(content)]
    IN  WithHash(shaped)

normalizeSectionHeadings(m) ==
    [m EXCEPT !.Sections = [i \in 1..Len(@) |-> NormalizeHeading(@[i])]]

NormalizeDocModel(m) ==
    normalizeSectionHeadings(
        reindexSectionOrder(
            ensureRootSectionIDs(
                ensureCanonicalRootSections(
                    ensurePolicyDefaults(m)))))

\* the section at position i makes the loop of Validate return an error
BadSectionID(secs, i) ==
    secs[i].ID = <<>> \/ \E j \in 1..(i - 1) : secs[j].ID = secs[i].ID

\* Validate without its loop over Policies.RequiredSectionIDs
Validate_SkipsRequired(m) ==
    LET secs == m.Sections
        bad == {i \in 1..Len(secs) : BadSectionID(secs, i)}
        first == CHOOSE i \in bad : \A k \in bad : i <= k
    IN  IF m.SchemaVersion = <<>> THEN "schema_version is required"
        ELSE IF Len(secs) = 0 THEN "sections must not be empty"
        ELSE IF bad # {}
             THEN IF secs[first].ID = <<>> THEN "section id is required"
                  ELSE "duplicate section id"
        ELSE ""

\* (m *DocModel) Validate: the error returned, "" for nil
Validate(m) ==
    LET secs == m.Sections
        bad == {i \in 1..Len(secs) : BadSectionID(secs, i)}
        first == CHOOSE i \in bad : \A k \in bad : i <= k
    IN  IF m.SchemaVersion = <<>> THEN "schema_version is required"
        ELSE IF Len(secs) = 0 THEN "sections must not be empty"
        ELSE IF bad # {}
             THEN IF secs[first].ID = <<>> THEN "section id is required"
                  ELSE "duplicate section id"
        ELSE IF \E i \in 1..Len(m.Policies.RequiredSectionIDs) :
                    m.Policies.RequiredSectionIDs[i] \notin SectionIDs(secs)
             THEN "required section missing"
        ELSE ""

\* doc_model.schema.json applied to the marshalled model
SchemaAccepts(m) ==
    \A i \in 1..Len(m.Sections) :
        /\ m.Sections[i].Status \in {"active", "deprecated"}
        /\ m.Sections[i].Level \in 1..6

SchemaStates == {"missing", "broken", "ok"}

\* validateDocModelWithSchema: model is <<>> for a nil pointer; schema is what
\* resolveDocModelSchemaPath and loadCompiledSchema find on disk
validateDocModelWithSchema(schema, model) ==
    IF model = <<>> THEN "doc model is nil"
    ELSE IF Validate(model[1]) # "" THEN Validate(model[1])
    ELSE IF schema = "missing" THEN "doc model schema file not found"
    ELSE IF schema = "broken" THEN "failed to compile doc model schema"
    ELSE IF ~SchemaAccepts(model[1]) THEN "doc model schema validation failed"
    ELSE ""

\* bufio.Scanner with the default line splitter
ScanLines(content) ==
    IF content = <<>> THEN <<>>
    ELSE LET parts == Split(content, "\n")
         IN  IF parts[Len(parts)] = <<>> THEN SubSeq(parts, 1, Len(parts) - 1) ELSE parts

docFileName == <<"docs", "/", "documentation", ".", "md">>

createSection(filename, title, level, content) ==
    [ID |-> <<"sha256", ":">> \o filename \o <<":">> \o title,
     Title |-> title, Level |-> level, Content |-> content]

RECURSIVE HeaderLevel(_)
HeaderLevel(trimmed) ==
    IF trimmed = <<>> \/ Head(trimmed) # "#" THEN 0 ELSE 1 + HeaderLevel(Tail(trimmed))

IsHeader(trimmed) ==
    LET level == HeaderLevel(trimmed)
    IN  /\ HasHashPrefix(trimmed)
        /\ level > 0 /\ level < 7
        /\ Len(trimmed) > level
        /\ trimmed[level + 1] = " "

FlushSection(filename, st) ==
    IF st.buf # <<>>
    THEN Append(st.sections, createSection(filename, st.title, st.level, st.buf))
    ELSE st.sections

RECURSIVE ScanMarkdown(_, _, _)
ScanMarkdown(filename, lines, st) ==
    IF lines = <<>> THEN FlushSection(filename, st)
    ELSE LET line == Head(lines)
             trimmed == TrimSpace(line)
             level == HeaderLevel(trimmed)
         IN  IF IsHeader(trimmed)
             THEN ScanMarkdown(filename, Tail(lines),
                      [title |-> TrimSpace(SubSeq(trimmed, level + 1, Len(trimmed))),
                       level |-> level,
                       buf |-> line \o <<"\n">>,
                       sections |-> FlushSection(filename, st)])
             ELSE ScanMarkdown(filename, Tail(lines),
                      [st EXCEPT !.buf = @ \o line \o <<"\n">>])

SplitMarkdown(filename, content) ==
    ScanMarkdown(filename, ScanLines(content),
                 [title |-> <<"Introduction">>, level |-> 0, buf |-> <<>>, sections |-> <<>>])

HeadUpdate == <<[CommitSHA |-> "HEAD", Timestamp |-> "now"]>>

\* usedIDs[baseID] before section i is handled
UsedCount(sections, i, baseID) ==
    Cardinality({j \in 1..(i - 1) : normalizeSectionID(sections[j].Title) = baseID})

BuiltSection(sections, i) ==
    LET s == sections[i]
        baseID == normalizeSectionID(s.Title)
        n == UsedCount(sections, i, baseID)
        id == IF n > 0 THEN baseID \o <<"-", Decimal(n + 1)>> ELSE baseID
        sec == WithHash(ModelSect(id, s.Title, max(1, s.Level), i - 1, NilParent,
                                  TrimSpace(s.Content), summarizeContent(s.Content),
                                  "active", <<>>))
    IN  [sec EXCEPT !.LastUpdated = HeadUpdate]

EmptyDocSection ==
    [ModelSect(<<"overview">>, <<"Overview">>, 1, 0, NilParent,
               <<"#", " ", "Overview", "\n">>, <<>>, "active", <<>>)
        EXCEPT !.Hash = <<"sha256", ":", "empty">>]

BuildModelFromMarkdown(content) ==
    LET sections == SplitMarkdown(docFileName, content)
        built == [i \in 1..Len(sections) |-> BuiltSection(sections, i)]
        ids == [i \in 1..Len(built) |-> built[i].ID]
        modelSections == IF Len(built) = 0 THEN <<EmptyDocSection>> ELSE built
        rootIDs == IF Len(built) = 0 THEN << <<"overview">> >> ELSE ids
    IN  NormalizeDocModel(
            [SchemaVersion |-> docModelSchemaVersion,
             Document |-> [ID |-> "docod-main-doc", Title |-> "Project Documentation",
                           RootSectionIDs |-> rootIDs],
             Sections |-> modelSections,
             Policies |-> [RequiredSectionIDs |-> uniqueStrings(rootIDs),
                           MaxSectionChars |-> defaultMaxSectionChars,
                           Style |-> DefaultStyle],
             Meta |-> [Repo |-> ".", DefaultBranch |-> "main", GeneratedAt |-> "now",
                       GeneratorVersion |-> "docod-dev"]])

clampPositive(n) == IF n <= 0 THEN 1 ELSE n

normalizeSourceRelation(v) ==
    LET r == ToLower(TrimSpace(v))
    IN  IF r \in {<<"primary">>, <<"dependency">>, <<"context">>} THEN r ELSE <<"primary">>

SourceRef(symbolID, filePath, startLine, endLine, relation, confidence) ==
    [SymbolID |-> symbolID, FilePath |-> filePath, StartLine |-> startLine,
     EndLine |-> endLine, Relation |-> relation, CommitSHA |-> "HEAD",
     Confidence |-> confidence]

\* confidences are in hundredths
RECURSIVE ChunkSourceRefs(_)
ChunkSourceRefs(sources) ==
    IF sources = <<>> THEN <<>>
    ELSE LET src == Head(sources)
             symbolID == TrimSpace(src.SymbolID)
             filePath == TrimSpace(src.FilePath)
             confidence == IF src.Confidence < 0 THEN 0
                           ELSE IF src.Confidence > 100 THEN 100 ELSE src.Confidence
         IN  IF symbolID = <<>> \/ filePath = <<>> THEN ChunkSourceRefs(Tail(sources))
             ELSE <<SourceRef(symbolID, filePath, clampPositive(src.StartLine),
                              clampPositive(src.EndLine),
                              normalizeSourceRelation(src.Relation), confidence)>>
                  \o ChunkSourceRefs(Tail(sources))

BuildSourcesFromChunk(chunk) ==
    LET out == ChunkSourceRefs(chunk.Sources)
        filePath == IF TrimSpace(chunk.FilePath) = <<>> THEN chunk.ID ELSE chunk.FilePath
    IN  IF Len(out) > 0 THEN out
        ELSE <<SourceRef(chunk.ID, filePath, 1, 1, <<"primary">>, 90)>>

SourceKey(src) == src.SymbolID \o <<"|">> \o src.FilePath

RECURSIVE AppendUnseen(_, _)
AppendUnseen(out, srcs) ==
    IF srcs = <<>> THEN out
    ELSE IF \E i \in 1..Len(out) : SourceKey(out[i]) = SourceKey(Head(srcs))
         THEN AppendUnseen(out, Tail(srcs))
         ELSE AppendUnseen(Append(out, Head(srcs)), Tail(srcs))

RECURSIVE MergeSources(_, _)
MergeSources(existing, chunks) ==
    IF chunks = <<>> THEN existing
    ELSE MergeSources(AppendUnseen(existing, BuildSourcesFromChunk(Head(chunks))),
                      Tail(chunks))

-----------------------------------------------------------------------------
(* Inputs of the document model *)

\* sections of a hand-written doc_model.json; their order values need not follow
\* their positions
DocSections ==
    { WithHash(ModelSect(<<"x">>, <<"X">>, 2, 1, NilParent, <<"body">>, <<"body">>,
                         "active", <<>>)),
      ModelSect(<<"y">>, <<>>, 0, 0, NilParent, <<>>, <<>>, "active", <<>>),
      WithHash(ModelSect(<<"overview">>, <<"Overview">>, 1, 0, NilParent,
                         <<"#", " ", "a", "\n", "hello">>, <<"hello">>, "active", <<>>)),
      ModelSect(<<"x">>, <<"X">>, 2, 0, NilParent, <<"body">>, <<>>, "bogus", <<>>),
      ModelSect(<<>>, <<"Y">>, 2, 1, NilParent, <<"body">>, <<>>, "active", <<>>),
      ModelSect(<<"y">>, <<"Y">>, 7, 1, << <<"x">> >>, <<"body">>, <<>>, "deprecated", <<>>) }

DocRequired == {<<>>, << <<"x">> >>}

DocVersions == {docModelSchemaVersion, <<>>}

\* doc_model.json as found on disk before the first run
InputModels ==
    { [SchemaVersion |-> v,
       Document |-> [ID |-> "docod-main-doc", Title |-> "Project Documentation",
                     RootSectionIDs |-> <<>>],
       Sections |-> secs,
       Policies |-> [RequiredSectionIDs |-> req, MaxSectionChars |-> 0,
                     Style |-> [DefaultStyle EXCEPT !.Tone = "",
                                                    !.PreferConceptualDiagrams = FALSE]],
       Meta |-> [Repo |-> ".", DefaultBranch |-> "main", GeneratedAt |-> "now",
                 GeneratorVersion |-> "docod-dev"]]
        : v \in DocVersions, req \in DocRequired, secs \in SeqsUpTo(DocSections, MaxSections) }

MdLines ==
    { <<"#", " ", "a">>, <<"#", " ", "a", " ", "2">>, <<"body">>, <<" ", "#", "#", " ", "Overview">> }

Markdowns == {Join(ls, "\n") : ls \in SeqsUpTo(MdLines, MaxMdLines)}

DocChunk(id, filePath, sources) == [ID |-> id, FilePath |-> filePath, Sources |-> sources]

ChunkSource(symbolID, filePath, startLine, endLine, relation, confidence) ==
    [SymbolID |-> symbolID, FilePath |-> filePath, StartLine |-> startLine,
     EndLine |-> endLine, Relation |-> relation, Confidence |-> confidence]

DocChunkUniverse ==
    { DocChunk(<<"s1">>, <<" ">>, <<>>),
      DocChunk(<<"s3">>, <<"g", ".", "go">>,
               <<ChunkSource(<<" ", "s2">>, <<"f", ".", "go">>, 0, 5, <<"Context">>, 150),
                 ChunkSource(<<>>, <<"g", ".", "go">>, 1, 1, <<"primary">>, 50)>>) }

DocChunkLists ==
    {cs \in SeqsUpTo(DocChunkUniverse, MaxChunks) :
        Len(cs) > 0 /\ \A i, j \in 1..Len(cs) : i # j => cs[i] # cs[j]}

-----------------------------------------------------------------------------
(* Operations on the document model *)

DocOp(op, err, wrote, schema) == [op |-> op, err |-> err, wrote |-> wrote, schema |-> schema]

InitDoc ==
    /\ IdleStore
    /\ IdleRetrieval
    /\ IdleIndex
    /\ IdleGraph
    /\ IdleChain
    /\ IdleCalib
    /\ IdlePlan
    /\ IdleRun
    /\ IdleLoad
    /\ IdleGen
    /\ IdleHealth
    /\ IdleBudget
    /\ IdleHydrate
    /\ IdleMem
    /\ dModel = <<>>
    /\ dFile \in {<<>>} \cup {<<m>> : m \in InputModels}
    /\ dOp = NoDocOp

\* LoadDocModel of a doc_model.json that exists
LoadDocModel ==
    /\ dFile # <<>>
    /\ dModel' = dFile
    /\ dOp' = DocOp("load", "", FALSE, "none")
    /\ UNCHANGED dFile
    /\ UNCHANGED <<storeVars, retrievalVars, indexVars, graphVars, chainVars, calibVars, planVars, runVars, loadVars, genVars, healthVars, budgetVars, hydrateVars, memVars>>

\* BuildModelFromMarkdown, called by the loaders when doc_model.json does not exist
BuildFromMarkdown ==
    /\ dFile = <<>>
    /\ \E md \in Markdowns :
        dModel' = <<BuildModelFromMarkdown(md)>>
    /\ dOp' = DocOp("build", "", FALSE, "none")
    /\ UNCHANGED dFile
    /\ UNCHANGED <<storeVars, retrievalVars, indexVars, graphVars, chainVars, calibVars, planVars, runVars, loadVars, genVars, healthVars, budgetVars, hydrateVars, memVars>>

\* NormalizeDocModel(m); a nil model is left alone
Normalize ==
    /\ dModel' = IF dModel = <<>> THEN dModel ELSE <<NormalizeDocModel(dModel[1])>>
    /\ dOp' = DocOp("normalize", "", FALSE, "none")
    /\ UNCHANGED dFile
    /\ UNCHANGED <<storeVars, retrievalVars, indexVars, graphVars, chainVars, calibVars, planVars, runVars, loadVars, genVars, healthVars, budgetVars, hydrateVars, memVars>>

\* the step of UpdateDocs on one affected section whose text is kept: the sources
\* of the triggering chunks are merged in and the hash is taken again
RefreshSectionSources ==
    /\ dModel # <<>>
    /\ \E i \in 1..Len(dModel[1].Sections), chunks \in DocChunkLists :
        /\ i <= MaxAffected
        /\ LET sec == dModel[1].Sections[i]
               merged == [sec EXCEPT !.Sources = MergeSources(@, chunks),
                                     !.LastUpdated = HeadUpdate]
           IN  dModel' = <<[dModel[1] EXCEPT !.Sections[i] = WithHash(merged)]>>
    /\ dOp' = DocOp("sources", "", FALSE, "none")
    /\ UNCHANGED dFile
    /\ UNCHANGED <<storeVars, retrievalVars, indexVars, graphVars, chainVars, calibVars, planVars, runVars, loadVars, genVars, healthVars, budgetVars, hydrateVars, memVars>>

\* SaveDocModel(path, model)
SaveDocModel ==
    \E schema \in SchemaStates, dirOk \in BOOLEAN :
        LET err == validateDocModelWithSchema(schema, dModel)
        IN  /\ IF err # "" THEN /\ dOp' = DocOp("save", err, FALSE, schema)
                                /\ UNCHANGED dFile
               ELSE IF ~dirOk THEN /\ dOp' = DocOp("save", "mkdir failed", FALSE, schema)
                                   /\ UNCHANGED dFile
               ELSE /\ dOp' = DocOp("save", "", TRUE, schema)
                    /\ dFile' = dModel
            /\ UNCHANGED dModel
            /\ UNCHANGED <<storeVars, retrievalVars, indexVars, graphVars, chainVars, calibVars, planVars, runVars, loadVars, genVars, healthVars, budgetVars, hydrateVars, memVars>>

NextDoc ==
    \/ LoadDocModel
    \/ BuildFromMarkdown
    \/ Normalize
    \/ RefreshSectionSources
    \/ SaveDocModel

SpecDoc == InitDoc /\ [][NextDoc]_vars

-----------------------------------------------------------------------------
(* Claims on the document model *)

\* C12: normalising an already normalised doc model changes nothing: a model that
\* NormalizeDocModel has just returned is a fixed point of NormalizeDocModel (same
\* section sequence and order values, root section ids, policies, headings,
\* summaries and hashes).
C12_NormalizeIdempotent ==
    (dOp.op = "normalize" /\ dModel # <<>>) =>
        NormalizeDocModel(dModel[1]) = dModel[1]

\* The conditions C13 names, for a save that found the schema in state schema.
SaveConditions(model, schema) ==
    /\ model # <<>>
    /\ \A i \in 1..Len(model[1].Sections) :
           /\ model[1].Sections[i].ID # <<>>
           /\ \A j \in 1..Len(model[1].Sections) :
                  model[1].Sections[j].ID = model[1].Sections[i].ID => j = i
    /\ \A i \in 1..Len(model[1].Policies.RequiredSectionIDs) :
           \E j \in 1..Len(model[1].Sections) :
               model[1].Sections[j].ID = model[1].Policies.RequiredSectionIDs[i]
    /\ schema = "ok"
    /\ SchemaAccepts(model[1])

\* C13: every SaveDocModel call writes doc_model.json only if every section id is
\* non-empty and unique, every required section id names a section and the model
\* passes schema validation, and then the file holds the model; in every other
\* case the call returns an error and leaves the file as it was.
C13_SaveOnlyValid ==
    [][dOp'.op = "save" =>
          /\ dOp'.wrote => (SaveConditions(dModel, dOp'.schema) /\ dFile' = dModel)
          /\ ~SaveConditions(dModel, dOp'.schema) =>
                 (dOp'.err # "" /\ ~dOp'.wrote /\ dFile' = dFile)]_vars

\* a save refused for a missing required section, the file on disk left as it was
C13_Witness ==
    /\ dOp.op = "save"
    /\ dOp.err = "required section missing"
    /\ ~dOp.wrote
    /\ dFile # <<>>
    /\ dFile # dModel

\* C14: the model BuildModelFromMarkdown returns has non-empty, pairwise distinct
\* section ids, whatever the Markdown input: a -N suffix given to a repeated slug
\* never collides with the id of another section.
C14_BuiltIDsDistinct ==
    dOp.op = "build" =>
        \A i \in 1..Len(dModel[1].Sections) :
            /\ dModel[1].Sections[i].ID # <<>>
            /\ \A j \in 1..Len(dModel[1].Sections) :
                   dModel[1].Sections[j].ID = dModel[1].Sections[i].ID => j = i

\* C15: the content hash of a section does not depend on the order of its sources:
\* after the sources of a section were merged and its hash taken, a section with
\* the same title, the same body and the same sources in any other order has the
\* same hash.
C15_HashIgnoresSourceOrder ==
    dOp.op = "sources" =>
        \A i \in 1..Len(dModel[1].Sections) :
            \A srcs \in IterationOrders(Range(dModel[1].Sections[i].Sources)) :
                Len(srcs) = Len(dModel[1].Sections[i].Sources) =>
                    sectionHash([dModel[1].Sections[i] EXCEPT !.Sources = srcs])
                        = sectionHash(dModel[1].Sections[i])

-----------------------------------------------------------------------------
(***************************************************************************)
(* Resolver chain: resolver.ResolverChain.Run over the heuristic resolver,  *)
(* the go/types resolver and test resolvers (src/unnamed/part_009).  The     *)
(* graph carries the list of unresolved relations the resolvers work on.     *)
(* File paths are clean slash paths, token by token:                         *)
(* "p/run.go" is <<"p", "/", "run", ".go">>.                                 *)
(***************************************************************************)

MaxResolvers == 3
MaxUnresolved == 2

typesConfidence == 90

CSym(id, name, pkg, file, unitType, recv, rels) ==
    [id |-> id, name |-> name, pkg |-> pkg, file |-> file, unitType |-> unitType,
     recv |-> recv, rels |-> rels]

CEdge(from, to, kind, resolver, confidence) ==
    [from |-> from, to |-> to, kind |-> kind, resolver |-> resolver,
     confidence |-> confidence]

\* graph.UnresolvedRelation; evKeys are the object keys go/types gives for the
\* calls or composite literals (by kind) in the evidence line range
Unresolved(from, target, kind, confidence, evKeys) ==
    [from |-> from, target |-> target, kind |-> kind, reason |-> "no_candidate",
     confidence |-> confidence, evKeys |-> evKeys]

ChainSymbols ==
    << CSym("run", <<"Run">>, "p", <<"p", "/", "run", ".go">>, "function", <<>>,
            <<Rel(<<"Bar">>, "calls")>>),
       CSym("foo_p", <<"Foo">>, "p", <<"p", "/", "foo", ".go">>, "struct", <<>>, <<>>),
       CSym("foo_q", <<"Foo">>, "q", <<"q", "/", "foo", ".go">>, "struct", <<>>, <<>>),
       CSym("bar", <<"Bar">>, "p", <<"p", "/", "bar", ".go">>, "function", <<>>, <<>>),
       CSym("do", <<"Do">>, "p", <<"p", "/", "foo", ".go">>, "method",
            <<"(", "f", " ", "*", "Foo", ")">>, <<>>),
       CSym("bad", <<"Bad">>, "r", <<"r", "/", "bad", ".go">>, "function", <<>>, <<>>),
       CSym("helper", <<"Helper">>, "p", <<"p", "/", "run", "_test", ".go">>, "function",
            <<>>, <<>>) >>

\* the files parser.ParseFile rejects
BrokenFiles == { <<"r", "/", "bad", ".go">> }

UnresolvedUniverse ==
    { Unresolved("run", <<"Foo">>, "instantiates", 72, <<>>),
      Unresolved("run", <<"Bar">>, "calls", 95, << <<"p", ".", "Bar">> >>),
      Unresolved("run", <<"Do">>, "calls", 70, << <<"p", ".", "Foo", ".", "Do">> >>),
      Unresolved("run", <<"Baz">>, "calls", 70, <<>>),
      Unresolved("run", <<"*", "Bar">>, "calls", 70, << <<"p", ".", "Foo">> >>),
      Unresolved("ghost", <<"Bar">>, "calls", 70, <<>>),
      Unresolved("bad", <<"Bar">>, "calls", 70, <<>>),
      Unresolved("helper", <<"Bar">>, "calls", 70, <<>>) }

UnresolvedLists ==
    {us \in SeqsUpTo(UnresolvedUniverse, MaxUnresolved) :
        \A i, j \in 1..Len(us) : i # j => us[i] # us[j]}

ChainResolver(name, kind, fails) == [name |-> name, kind |-> kind, fails |-> fails]

\* NewHeuristicResolver, NewGoTypesResolver and two resolvers of the kind the
\* test of the chain builds, one of them returning an error
ResolverUniverse ==
    { ChainResolver("heuristic", "heuristic", FALSE),
      ChainResolver("types", "types", FALSE),
      ChainResolver("r1", "fake", FALSE),
      ChainResolver("r2", "fake", TRUE) }

Chains == SeqsUpTo(ResolverUniverse, MaxResolvers)

ChainGraph(unresolved) ==
    LET g == AddUnits(NewGraph, ChainSymbols)
    IN  [nodes |-> g.nodes, index |-> g.index, edges |-> <<>>, unresolved |-> unresolved]

\* strings.HasSuffix(path, ".go") && !strings.HasSuffix(path, "_test.go")
IsPlainGoFile(path) ==
    /\ path # <<>> /\ path[Len(path)] = ".go"
    /\ ~(Len(path) > 1 /\ path[Len(path) - 1] = "_test")

\* filepath.Dir of a clean slash path
FileDir(path) ==
    LET slashes == {i \in 1..Len(path) : path[i] = "/"}
    IN  IF slashes = {} THEN <<".">>
        ELSE SubSeq(path, 1, (CHOOSE i \in slashes : \A j \in slashes : j <= i) - 1)

\* canonicalPath is filepath.Clean and ToSlash, which leave a clean slash path as it is
pkgGroupKey(filePath, pkg) == FileDir(filePath) \o <<"|", pkg>>

\* loadTypedPackages: group key -> files of the typed package; a group with a
\* file that does not parse is skipped
loadTypedPackages(nodes) ==
    LET units == {nodes[id] : id \in DOMAIN nodes}
        plain == {u \in units : IsPlainGoFile(u.file)}
        keys == {pkgGroupKey(u.file, u.pkg) : u \in plain}
        files(k) == {u.file : u \in {v \in plain : pkgGroupKey(v.file, v.pkg) = k}}
        loaded == {k \in keys : files(k) \cap BrokenFiles = {}}
    IN  [k \in loaded |-> files(k)]

\* strings.Fields
Fields(s) == SelectSeq(Split(s, " "), LAMBDA part : part # <<>>)

TrimSuffix(s, suffix) ==
    IF s # <<>> /\ s[Len(s)] = suffix THEN SubSeq(s, 1, Len(s) - 1) ELSE s

cleanReceiver(recv) ==
    LET r == TrimSuffix(TrimPrefix(TrimSpace(recv), "("), ")")
        parts == Fields(r)
    IN  IF TrimSpace(recv) = <<>> THEN <<>>
        ELSE IF Len(parts) = 0 THEN <<>>
        ELSE TrimPrefix(parts[Len(parts)], "*")

MethodKey(unit) == <<unit.pkg, ".">> \o cleanReceiver(unit.recv) \o <<".">> \o TrimSpace(unit.name)

\* buildNodeIndex; the id lists are used as sets
buildNodeIndex(nodes) ==
    LET ids == DOMAIN nodes
        named == {id \in ids : TrimSpace(nodes[id].name) # <<>>}
        qualified == {id \in named : nodes[id].pkg # ""}
        methods == {id \in qualified : nodes[id].unitType = "method"
                                        /\ cleanReceiver(nodes[id].recv) # <<>>}
    IN  [byName |->
            [k \in {TrimSpace(nodes[id].name) : id \in named} |->
                {id \in named : TrimSpace(nodes[id].name) = k}],
         byQualifiedName |->
            [k \in {QualifiedKey(nodes[id].pkg, TrimSpace(nodes[id].name)) : id \in qualified} |->
                {id \in qualified : QualifiedKey(nodes[id].pkg, TrimSpace(nodes[id].name)) = k}],
         byMethod |->
            [k \in {MethodKey(nodes[id]) : id \in methods} |->
                {id \in methods : MethodKey(nodes[id]) = k}]]

IndexLookup(map, k) == IF k \in DOMAIN map THEN map[k] ELSE {}

RECURSIVE dedupeStrings(_)
dedupeStrings(in) ==
    IF in = <<>> THEN <<>>
    ELSE LET front == dedupeStrings(SubSeq(in, 1, Len(in) - 1))
             s == in[Len(in)]
         IN  IF s = <<>> \/ s \in Range(front) THEN front ELSE Append(front, s)

LastPart(k) == LET parts == Split(k, ".") IN parts[Len(parts)]

\* the candidate set of resolveKeysToIDs
KeyCandidates(idx, keys) ==
    UNION { IndexLookup(idx.byQualifiedName, keys[i])
            \cup IndexLookup(idx.byMethod, keys[i])
            \cup IndexLookup(idx.byName, LastPart(keys[i])) : i \in 1..Len(keys) }

\* resolveKeysToIDs picking a target out of an ambiguous candidate set
resolveKeysToIDs_PicksOne(idx, keys) ==
    LET out == KeyCandidates(idx, keys)
    IN  IF out # {} THEN [ids |-> <<CHOOSE id \in out : TRUE>>, ambiguous |-> FALSE]
        ELSE [ids |-> <<>>, ambiguous |-> FALSE]

resolveKeysToIDs(idx, keys) ==
    LET out == KeyCandidates(idx, keys)
    IN  IF Cardinality(out) = 1 THEN [ids |-> <<CHOOSE id \in out : TRUE>>, ambiguous |-> FALSE]
        ELSE IF Cardinality(out) > 1 THEN [ids |-> <<>>, ambiguous |-> TRUE]
        ELSE [ids |-> <<>>, ambiguous |-> FALSE]

targetKeys(target, sourcePkg) ==
    LET t == TrimSpace(target)
        clean == TrimPrefix(TrimPrefix(t, "*"), "[]")
        parts == Split(clean, ".")
    IN  IF t = <<>> THEN <<>>
        ELSE dedupeStrings(
                 <<clean>>
                 \o (IF sourcePkg # "" THEN <<QualifiedKey(sourcePkg, clean)>> ELSE <<>>)
                 \o (IF "." \in Range(clean) THEN <<parts[Len(parts)]>> ELSE <<>>))

resolveByEvidence(idx, ur) ==
    LET found == IF ur.kind \in {"calls", "instantiates"} THEN ur.evKeys ELSE <<>>
        keys == dedupeStrings(found)
        res == resolveKeysToIDs(idx, keys)
    IN  IF Len(keys) = 0 THEN [ids |-> <<>>, reason |-> "no_candidate"]
        ELSE IF Len(res.ids) > 0 THEN [ids |-> res.ids, reason |-> ""]
        ELSE IF res.ambiguous THEN [ids |-> <<>>, reason |-> "ambiguous"]
        ELSE [ids |-> <<>>, reason |-> "no_candidate"]

\* tpFiles are the files of the typed package of the source
resolveUnresolvedWithTypes(tpFiles, idx, source, ur) ==
    LET ev == resolveByEvidence(idx, ur)
        res == resolveKeysToIDs(idx, targetKeys(ur.target, source.pkg))
    IN  IF source.file \notin tpFiles THEN [ids |-> <<>>, reason |-> "source_missing"]
        ELSE IF Len(ev.ids) > 0 THEN [ids |-> ev.ids, reason |-> ""]
        ELSE IF Len(res.ids) > 0 THEN [ids |-> res.ids, reason |-> ""]
        ELSE IF res.ambiguous THEN [ids |-> <<>>, reason |-> "ambiguous"]
        ELSE IF ev.reason # "" THEN [ids |-> <<>>, reason |-> ev.reason]
        ELSE [ids |-> <<>>, reason |-> "no_candidate"]

EdgeKeys(edges) == {<<edges[i].from, edges[i].to, edges[i].kind>> : i \in 1..Len(edges)}

\* the loop over targetIDs: an edge whose key is in edgeSet is not appended again
RECURSIVE AddTypedEdges(_, _, _)
AddTypedEdges(edges, ur, targetIDs) ==
    IF targetIDs = <<>> THEN edges
    ELSE IF <<ur.from, Head(targetIDs), ur.kind>> \in EdgeKeys(edges)
         THEN AddTypedEdges(edges, ur, Tail(targetIDs))
         ELSE AddTypedEdges(
                  Append(edges, CEdge(ur.from, Head(targetIDs), ur.kind, "types",
                                      max(ur.confidence, typesConfidence))),
                  ur, Tail(targetIDs))

ZeroStats == [Attempted |-> 0, Resolved |-> 0, Skipped |-> 0]

\* the loop of ResolveGraphRelations over g.Unresolved
RECURSIVE TypesLoop(_, _, _, _, _)
TypesLoop(nodes, pkgs, idx, unresolved, st) ==
    IF unresolved = <<>> THEN st
    ELSE LET ur == Head(unresolved)
             rest == Tail(unresolved)
             attempted == [st EXCEPT !.stats.Attempted = @ + 1]
             source == nodes[ur.from]
             pkgKey == pkgGroupKey(source.file, source.pkg)
             res == resolveUnresolvedWithTypes(pkgs[pkgKey], idx, source, ur)
         IN  IF ur.from \notin DOMAIN nodes
             THEN TypesLoop(nodes, pkgs, idx, rest,
                      [attempted EXCEPT !.stats.Skipped = @ + 1,
                                        !.still = Append(@, [ur EXCEPT !.reason = "source_missing"])])
             ELSE IF pkgKey \notin DOMAIN pkgs
             THEN TypesLoop(nodes, pkgs, idx, rest,
                      [attempted EXCEPT !.stats.Skipped = @ + 1,
                                        !.still = Append(@, [ur EXCEPT !.reason = "typecheck_failed"])])
             ELSE IF Len(res.ids) = 0
             THEN TypesLoop(nodes, pkgs, idx, rest,
                      [attempted EXCEPT !.still = Append(@, [ur EXCEPT !.reason = res.reason])])
             ELSE TypesLoop(nodes, pkgs, idx, rest,
                      [attempted EXCEPT !.stats.Resolved = @ + 1,
                                        !.edges = AddTypedEdges(@, ur, res.ids)])

\* GoTypesResolver.Resolve: the graph after ResolveGraphRelations, the statistics
\* and the error returned
GoTypesResolve(g) ==
    LET st == TypesLoop(g.nodes, loadTypedPackages(g.nodes), buildNodeIndex(g.nodes),
                        g.unresolved,
                        [edges |-> g.edges, still |-> <<>>, stats |-> ZeroStats])
    IN  IF Len(g.unresolved) = 0 THEN [graph |-> g, stats |-> ZeroStats, err |-> ""]
        ELSE [graph |-> [g EXCEPT !.edges = st.edges, !.unresolved = st.still],
              stats |-> st.stats, err |-> ""]

\* HeuristicResolver.Resolve: LinkRelations, whose edges carry no resolver and no confidence
HeuristicResolve(g, ord) ==
    LET linked == LinkRelations(g.nodes, g.index, ord)
        edges == [i \in 1..Len(linked) |->
                     CEdge(linked[i].from, linked[i].to, linked[i].kind, "", 0)]
    IN  [graph |-> [g EXCEPT !.edges = edges],
         stats |-> [Attempted |-> Len(edges) + Len(g.unresolved),
                    Resolved |-> Len(edges),
                    Skipped |-> Len(g.unresolved)],
         err |-> ""]

\* a resolver of the chain test: drops the first unresolved relation, appends an
\* edge, and returns an error if it is built to
FakeResolve(g, fails) ==
    [graph |-> [g EXCEPT !.unresolved = IF Len(@) > 0 THEN Tail(@) ELSE @,
                         !.edges = Append(@, CEdge("run", "foo_p", "calls", "", 0))],
     stats |-> [Attempted |-> 2, Resolved |-> 1, Skipped |-> 1],
     err |-> IF fails THEN "resolver failed" ELSE ""]

\* r.Resolve(g) for the resolver r
Resolve(r, g, ord) ==
    IF r.kind = "heuristic" THEN HeuristicResolve(g, ord)
    ELSE IF r.kind = "types" THEN GoTypesResolve(g)
    ELSE FakeResolve(g, r.fails)

StageResult(r, res, before) ==
    [Resolver |-> r.name, Stats |-> res.stats, UnresolvedBefore |-> before,
     UnresolvedAfter |-> Len(res.graph.unresolved), EdgeCount |-> Len(res.graph.edges),
     Err |-> res.err]

\* the loop of Run going on without looking at the error
ContinueAfter_Always(err) == TRUE

\* the loop of Run goes on after a resolver that returned no error
ContinueAfter(err) == err = ""

InitChain ==
    /\ IdleStore
    /\ IdleRetrieval
    /\ IdleIndex
    /\ IdleGraph
    /\ IdleDoc
    /\ IdleCalib
    /\ IdlePlan
    /\ IdleRun
    /\ IdleLoad
    /\ IdleGen
    /\ IdleHealth
    /\ IdleBudget
    /\ IdleHydrate
    /\ IdleMem
    /\ \E us \in UnresolvedLists : cGraph = ChainGraph(us)
    /\ cChain \in Chains
    /\ cPc = "idle"
    /\ cPos = 0
    /\ cCalls = <<>>
    /\ cOut = <<>>

\* Run is called: the result list is empty and the loop is at the first resolver
ChainStart ==
    /\ cPc = "idle"
    /\ cPc' = "loop"
    /\ cPos' = 1
    /\ cOut' = <<>>
    /\ UNCHANGED <<cGraph, cChain, cCalls>>
    /\ UNCHANGED <<storeVars, retrievalVars, indexVars, graphVars, docVars, calibVars, planVars, runVars, loadVars, genVars, healthVars, budgetVars, hydrateVars, memVars>>

\* one iteration of the loop of Run
ChainInvoke ==
    /\ cPc = "loop"
    /\ cPos <= Len(cChain)
    /\ \E ord \in SourceOrders(cGraph.nodes) :
        LET r == cChain[cPos]
            before == Len(cGraph.unresolved)
            res == Resolve(r, cGraph, ord)
        IN  /\ cCalls' = Append(cCalls, r.name)
            /\ cGraph' = res.graph
            /\ cOut' = Append(cOut, StageResult(r, res, before))
            /\ IF ContinueAfter(res.err)
               THEN cPos' = cPos + 1 /\ cPc' = "loop"
               ELSE cPos' = cPos /\ cPc' = "done"
    /\ UNCHANGED cChain
    /\ UNCHANGED <<storeVars, retrievalVars, indexVars, graphVars, docVars, calibVars, planVars, runVars, loadVars, genVars, healthVars, budgetVars, hydrateVars, memVars>>

\* the loop is past the last resolver: Run returns
ChainReturn ==
    /\ cPc = "loop"
    /\ cPos > Len(cChain)
    /\ cPc' = "done"
    /\ UNCHANGED <<cGraph, cChain, cPos, cCalls, cOut>>
    /\ UNCHANGED <<storeVars, retrievalVars, indexVars, graphVars, docVars, calibVars, planVars, runVars, loadVars, genVars, healthVars, budgetVars, hydrateVars, memVars>>

NextChain ==
    \/ ChainStart
    \/ ChainInvoke
    \/ ChainReturn

SpecChain == InitChain /\ [][NextChain]_vars

\* C16: Run calls the resolvers in their configured order and keeps one
\* StageResult per call, in call order, with the number of unresolved relations
\* before and after that call; no resolver is called after one that returned an
\* error, and when Run has returned without an error every resolver was called.
C16_CallsInOrder ==
    /\ Len(cOut) = Len(cCalls)
    /\ Len(cCalls) <= Len(cChain)
    /\ \A i \in 1..Len(cCalls) :
           /\ cCalls[i] = cChain[i].name
           /\ cOut[i].Resolver = cChain[i].name
           /\ (cOut[i].Err # "") = cChain[i].fails
           /\ \A j \in 1..(i - 1) : ~cChain[j].fails
    /\ (cPc = "done" /\ \A i \in 1..Len(cCalls) : ~cChain[i].fails) =>
           Len(cCalls) = Len(cChain)

C16_MeasuredAroundCall ==
    Len(cCalls') = Len(cCalls) + 1 =>
        /\ Len(cOut') = Len(cOut) + 1
        /\ cOut'[Len(cOut')].UnresolvedBefore = Len(cGraph.unresolved)
        /\ cOut'[Len(cOut')].UnresolvedAfter = Len(cGraph'.unresolved)
        /\ cOut'[Len(cOut')].EdgeCount = Len(cGraph'.edges)

C16_ChainOrderAndStop == [](C16_CallsInOrder) /\ [][C16_MeasuredAroundCall]_vars

\* Run stopped at a failing resolver that has resolvers configured after it
C16_Witness ==
    /\ cPc = "done"
    /\ Len(cCalls) >= 1
    /\ Len(cCalls) < Len(cChain)
    /\ cChain[Len(cCalls)].fails
    /\ cOut[Len(cOut)].UnresolvedAfter < cOut[Len(cOut)].UnresolvedBefore

\* The symbols a key names: by package.name, by package.receiver.name for a
\* method, or by the bare name after the last dot of the key.
SymbolsNamedBy(nodes, key) ==
    {id \in DOMAIN nodes :
        \/ key = <<nodes[id].pkg, ".">> \o nodes[id].name
        \/ /\ nodes[id].unitType = "method"
           /\ cleanReceiver(nodes[id].recv) # <<>>
           /\ key = <<nodes[id].pkg, ".">> \o cleanReceiver(nodes[id].recv)
                        \o <<".">> \o nodes[id].name
        \/ key # <<>> /\ <<key[Len(key)]>> = nodes[id].name}

CandidateTargets(nodes, keys) == UNION {SymbolsNamedBy(nodes, keys[i]) : i \in 1..Len(keys)}

\* The candidate targets of the attempt that decides an unresolved relation: the
\* evidence attempt if it gives exactly one, else the attempt on the target keys.
DecidingTargets(nodes, ur) ==
    LET byEvidence == CandidateTargets(nodes, ur.evKeys)
        byKeys == CandidateTargets(nodes, targetKeys(ur.target, nodes[ur.from].pkg))
    IN  IF Cardinality(byEvidence) = 1 THEN byEvidence ELSE byKeys

\* The typed resolver gets as far as resolving ur: its source is a symbol of a
\* package that loads, in a file of that package.
ReachesResolution(nodes, ur) ==
    /\ ur.from \in DOMAIN nodes
    /\ pkgGroupKey(nodes[ur.from].file, nodes[ur.from].pkg) \in DOMAIN loadTypedPackages(nodes)
    /\ IsPlainGoFile(nodes[ur.from].file)

NewEdges(before, after) == {e \in Range(after) : e \notin Range(before)}

\* C17: in every call of the typed resolver, an unresolved relation whose
\* resolution gives more than one candidate target stays in the unresolved list
\* with reason ambiguous and gets no edge, and every edge the call adds goes from
\* the source of an unresolved relation to its one and only candidate target.
C17_AmbiguousStaysUnresolved ==
    [][(cPc = "loop" /\ cPos <= Len(cChain) /\ cChain[cPos].kind = "types"
        /\ Len(cCalls') = Len(cCalls) + 1) =>
          /\ \A k \in 1..Len(cGraph.unresolved) :
                LET ur == cGraph.unresolved[k]
                IN  (ReachesResolution(cGraph.nodes, ur)
                     /\ Cardinality(DecidingTargets(cGraph.nodes, ur)) > 1) =>
                        /\ [ur EXCEPT !.reason = "ambiguous"] \in Range(cGraph'.unresolved)
                        /\ ~\E e \in NewEdges(cGraph.edges, cGraph'.edges) :
                               /\ e.from = ur.from /\ e.kind = ur.kind
                               /\ e.to \in DecidingTargets(cGraph.nodes, ur)
          /\ \A e \in NewEdges(cGraph.edges, cGraph'.edges) :
                \E k \in 1..Len(cGraph.unresolved) :
                    /\ cGraph.unresolved[k].from = e.from
                    /\ cGraph.unresolved[k].kind = e.kind
                    /\ ReachesResolution(cGraph.nodes, cGraph.unresolved[k])
                    /\ DecidingTargets(cGraph.nodes, cGraph.unresolved[k]) = {e.to}]_vars

\* the typed resolver has left a relation ambiguous and resolved another to an edge
C17_Witness ==
    /\ "types" \in Range(cCalls)
    /\ \E k \in 1..Len(cGraph.unresolved) : cGraph.unresolved[k].reason = "ambiguous"
    /\ \E i \in 1..Len(cGraph.edges) : cGraph.edges[i].resolver = "types"

-----------------------------------------------------------------------------
(***************************************************************************)
(* Relation confidence: extractor.CalibrateRelationConfidence.  Confidences *)
(* are counted in hundredths, which makes every sum of the code exact.      *)
(***************************************************************************)

MaxLine == 2

confidenceMin == 10
confidenceMax == 99
typesBonus == 18
unknownResolverPenalty == 3
evidencePenalty == 5

RelationKinds == {"belongs_to", "instantiates", "calls", "uses_type", "embeds", "imports"}
ResolverTags == {"types", "ast_heuristic", "heuristic", ""}

Evidences ==
    [Filepath : {"", "a.go"}, StartLine : -1..MaxLine, EndLine : -1..MaxLine]

baseConfidence(kind) ==
    CASE kind = "belongs_to" -> 80
      [] kind = "instantiates" -> 72
      [] kind = "calls" -> 70
      [] kind = "uses_type" -> 65
      [] kind = "embeds" -> 60
      [] OTHER -> 55

clamp(v, lo, hi) == IF v < lo THEN lo ELSE IF v > hi THEN hi ELSE v

\* the penalties ten times as large and the result returned without the clamp
CalibrateRelationConfidence_Unclamped(kind, resolver, evidence) ==
    baseConfidence(kind)
        + (IF resolver = "types" THEN typesBonus
           ELSE IF resolver = "ast_heuristic" THEN 0 ELSE -unknownResolverPenalty)
        - (IF evidence.Filepath = "" THEN 10 * evidencePenalty ELSE 0)
        - (IF evidence.StartLine <= 0 \/ evidence.EndLine < evidence.StartLine
           THEN 10 * evidencePenalty ELSE 0)

CalibrateRelationConfidence(kind, resolver, evidence) ==
    LET base == baseConfidence(kind)
        tagged == IF resolver = "types" THEN base + typesBonus
                  ELSE IF resolver = "ast_heuristic" THEN base
                  ELSE base - unknownResolverPenalty
        filed == IF evidence.Filepath = "" THEN tagged - evidencePenalty ELSE tagged
        lined == IF evidence.StartLine <= 0 \/ evidence.EndLine < evidence.StartLine
                 THEN filed - evidencePenalty ELSE filed
    IN  clamp(lined, confidenceMin, confidenceMax)

InitCalib ==
    /\ IdleStore
    /\ IdleRetrieval
    /\ IdleIndex
    /\ IdleGraph
    /\ IdleDoc
    /\ IdleChain
    /\ IdlePlan
    /\ IdleRun
    /\ IdleLoad
    /\ IdleGen
    /\ IdleHealth
    /\ IdleBudget
    /\ IdleHydrate
    /\ IdleMem
    /\ kCall = NoCall

Calibrate ==
    /\ \E kind \in RelationKinds, resolver \in ResolverTags, evidence \in Evidences :
        kCall' = [kind |-> kind, resolver |-> resolver, evidence |-> evidence,
                  result |-> CalibrateRelationConfidence(kind, resolver, evidence)]
    /\ UNCHANGED <<storeVars, retrievalVars, indexVars, graphVars, docVars, chainVars, planVars, runVars, loadVars, genVars, healthVars, budgetVars, hydrateVars, memVars>>

NextCalib == Calibrate

SpecCalib == InitCalib /\ [][NextCalib]_vars

\* C18: whatever the relation kind, the resolver tag and the evidence (no file,
\* a start line that is not positive, an end line before the start line), the
\* confidence CalibrateRelationConfidence returns lies in [0.10, 0.99].
C18_ConfidenceInRange ==
    kCall # NoCall => (kCall.result >= confidenceMin /\ kCall.result <= confidenceMax)

\* a call with no evidence file and an invalid line range, for an unknown kind
\* and resolver: the smallest confidence there is
C18_Witness ==
    /\ kCall # NoCall
    /\ kCall.evidence.Filepath = ""
    /\ kCall.evidence.EndLine < kCall.evidence.StartLine
    /\ kCall.kind = "imports"
    /\ kCall.resolver = ""
    /\ kCall.result = 42

-----------------------------------------------------------------------------
(***************************************************************************)
(* Section planner: planner.BuildDocUpdatePlan.  The planner reads of a    *)
(* section only its ID and the SymbolID, FilePath and Confidence of its     *)
(* sources.  Source confidences and node scores are in hundredths, a score  *)
(* in thousandths, and a section confidence is the fraction                 *)
(* num / (200 * den): the sum of the combined confidences over their count. *)
(***************************************************************************)

MaxPlanSections == 2
MaxPlanSources == 2

symbolMatchScore == 1000
fileMatchScore == 350
fileMatchConfidence == 30
unscoredSymbolConfidence == 45

PlanStringOrder ==
    <<"", "a.go", "b.go", "file_source_match", "s1", "s2", "sec1", "sec2", "sec3",
      "symbol_source_match">>

StringLess(a, b) == RankIn(PlanStringOrder, a) < RankIn(PlanStringOrder, b)

RECURSIVE SortStrings(_)
SortStrings(S) ==
    IF S = {} THEN <<>>
    ELSE LET x == CHOOSE y \in S : \A z \in S : z = y \/ StringLess(y, z)
         IN  <<x>> \o SortStrings(S \ {x})

PlanSource(symbolID, filePath, confidence) ==
    [SymbolID |-> symbolID, FilePath |-> filePath, Confidence |-> confidence]

PlanSources ==
    { PlanSource("s1", "a.go", 80), PlanSource("s2", "b.go", 0),
      PlanSource("", "a.go", 0), PlanSource("s1", "", 0) }

PlanSectionIDs == <<"sec1", "sec2", "sec3">>

PlanSections ==
    [ID : {PlanSectionIDs[i] : i \in 1..MaxPlanSections},
     Sources : SeqsUpTo(PlanSources, MaxPlanSources)]

\* a nil model, or a model whose sections have pairwise different IDs
PlanModels ==
    {<<>>} \cup
    { <<[Sections |-> ss]>> :
        ss \in {s \in SeqsUpTo(PlanSections, MaxPlanSections) :
                   \A i, j \in 1..Len(s) : s[i].ID = s[j].ID => i = j} }

PlanSubgraph(ids, files, scores) ==
    [NodeIDs |-> ids, UpdatedFiles |-> files, NodeScores |-> scores]

\* a nil subgraph, or what ExtractFromChanges returns: updated files with or
\* without nodes, the scores of some of the nodes
PlanSubgraphs ==
    {<<>>} \cup
    { <<PlanSubgraph(n, f, sc)>> :
        n \in {<<>>, <<"s1">>, <<"s2", "s1">>},
        f \in {<<>>, <<"a.go">>, <<"b.go", "a.go">>},
        sc \in {EmptyFn, [x \in {"s1"} |-> 50], [x \in {"s1", "s2"} |-> 150]} }

toSet(values) == {v \in Range(values) : v # ""}

sortedSetKeys(m) == SortStrings(m)

normalizeConfidence(value, fallback) ==
    IF value <= 0 THEN fallback ELSE IF value > 100 THEN 100 ELSE value

NodeScore(sg, id) == IF id \in DOMAIN sg.NodeScores THEN sg.NodeScores[id] ELSE 0

NoImpact(id) ==
    [SectionID |-> id, Score |-> 0, reasonSet |-> {}, symbolHit |-> {}, fileHit |-> {},
     confSum |-> 0, confCount |-> 0]

\* the body of the loop over section.Sources
ScanSource(acc, src, sg, symbolSet, fileSet) ==
    LET symConf == normalizeConfidence(NodeScore(sg, src.SymbolID), unscoredSymbolConfidence)
        srcConf == normalizeConfidence(src.Confidence, symConf)
        sym == src.SymbolID # "" /\ src.SymbolID \in symbolSet
        a1 == IF sym
              THEN [acc EXCEPT !.Score = @ + symbolMatchScore + (symConf + srcConf),
                               !.reasonSet = @ \cup {"symbol_source_match"},
                               !.symbolHit = @ \cup {src.SymbolID},
                               !.confSum = @ + (symConf + srcConf),
                               !.confCount = @ + 1]
              ELSE acc
    IN  IF src.FilePath # "" /\ src.FilePath \in fileSet
        THEN [a1 EXCEPT !.Score = @ + fileMatchScore,
                        !.reasonSet = @ \cup {"file_source_match"},
                        !.fileHit = @ \cup {src.FilePath},
                        !.confSum = @ + 2 * fileMatchConfidence,
                        !.confCount = @ + 1]
        ELSE a1

RECURSIVE ScanSources(_, _, _, _, _)
ScanSources(acc, sources, sg, symbolSet, fileSet) ==
    IF sources = <<>> THEN acc
    ELSE ScanSources(ScanSource(acc, Head(sources), sg, symbolSet, fileSet),
                     Tail(sources), sg, symbolSet, fileSet)

SectionImpact(acc) ==
    [SectionID |-> acc.SectionID, Score |-> acc.Score,
     Confidence |-> IF acc.confCount > 0 THEN [num |-> acc.confSum, den |-> acc.confCount]
                    ELSE [num |-> 0, den |-> 1],
     Reasons |-> sortedSetKeys(acc.reasonSet),
     TriggerSymbols |-> sortedSetKeys(acc.symbolHit),
     TriggerFiles |-> sortedSetKeys(acc.fileHit)]

\* the loop over model.Sections: the impacts in section order, and the symbols
\* some source matched
RECURSIVE ScanPlanSections(_, _, _, _)
ScanPlanSections(sections, sg, symbolSet, fileSet) ==
    IF sections = <<>> THEN [impacts |-> <<>>, matched |-> {}]
    ELSE LET acc == ScanSources(NoImpact(Head(sections).ID), Head(sections).Sources,
                                sg, symbolSet, fileSet)
             rest == ScanPlanSections(Tail(sections), sg, symbolSet, fileSet)
         IN  [impacts |-> (IF acc.Score <= 0 THEN <<>> ELSE <<SectionImpact(acc)>>)
                              \o rest.impacts,
              matched |-> acc.symbolHit \cup rest.matched]

ConfidenceEqual(a, b) == a.num * b.den = b.num * a.den

ConfidenceGreater(a, b) == a.num * b.den > b.num * a.den

\* the less function handed to sort.Slice
ImpactLess(a, b) ==
    IF ConfidenceEqual(a.Confidence, b.Confidence)
    THEN IF a.Score = b.Score THEN StringLess(a.SectionID, b.SectionID)
         ELSE a.Score > b.Score
    ELSE ConfidenceGreater(a.Confidence, b.Confidence)

\* sort.Slice on fewer than twelve elements is an insertion sort
RECURSIVE InsertImpact(_, _)
InsertImpact(sorted, x) ==
    IF sorted = <<>> THEN <<x>>
    ELSE LET last == sorted[Len(sorted)]
         IN  IF ImpactLess(x, last)
             THEN InsertImpact(SubSeq(sorted, 1, Len(sorted) - 1), x) \o <<last>>
             ELSE sorted \o <<x>>

RECURSIVE SortImpacts(_)
SortImpacts(impacts) ==
    IF impacts = <<>> THEN <<>>
    ELSE InsertImpact(SortImpacts(SubSeq(impacts, 1, Len(impacts) - 1)),
                      impacts[Len(impacts)])

BuildDocUpdatePlan(model, sgp) ==
    IF sgp = <<>> THEN EmptyPlan
    ELSE LET sg == sgp[1]
             plan == [EmptyPlan EXCEPT !.TriggeredSymbolIDs = sg.NodeIDs,
                                       !.TriggeredFiles = sg.UpdatedFiles]
         IN  IF model = <<>> \/ Len(model[1].Sections) = 0 \/ Len(sg.NodeIDs) = 0
             THEN [plan EXCEPT !.UnmatchedSymbols = sg.NodeIDs]
             ELSE LET scan == ScanPlanSections(model[1].Sections, sg,
                                               toSet(sg.NodeIDs), toSet(sg.UpdatedFiles))
                  IN  [plan EXCEPT
                         !.AffectedSections = SortImpacts(scan.impacts),
                         !.UnmatchedSymbols =
                             SortStrings(Range(sg.NodeIDs) \ scan.matched)]

InitPlan ==
    /\ IdleStore
    /\ IdleRetrieval
    /\ IdleIndex
    /\ IdleGraph
    /\ IdleDoc
    /\ IdleChain
    /\ IdleCalib
    /\ IdleRun
    /\ IdleLoad
    /\ IdleGen
    /\ IdleHealth
    /\ IdleBudget
    /\ IdleHydrate
    /\ IdleMem
    /\ \E model \in PlanModels, sg \in PlanSubgraphs :
        pCall = [model |-> model, sg |-> sg, plan |-> EmptyPlan, called |-> FALSE]

BuildPlan ==
    /\ ~pCall.called
    /\ pCall' = [pCall EXCEPT !.plan = BuildDocUpdatePlan(pCall.model, pCall.sg),
                              !.called = TRUE]
    /\ UNCHANGED <<storeVars, retrievalVars, indexVars, graphVars, docVars, chainVars,
                   calibVars, runVars, loadVars, genVars, healthVars, budgetVars, hydrateVars, memVars>>

NextPlan == BuildPlan

SpecPlan == InitPlan /\ [][NextPlan]_vars

\* the sections of the call's model with a source whose file is an updated file
FileMatched(call) ==
    {i \in 1..Len(call.model[1].Sections) :
        \E k \in 1..Len(call.model[1].Sections[i].Sources) :
            call.model[1].Sections[i].Sources[k].FilePath \in Range(call.sg[1].UpdatedFiles)}

EmittedForFile(plan, id) ==
    \E k \in 1..Len(plan.AffectedSections) :
        /\ plan.AffectedSections[k].SectionID = id
        /\ "file_source_match" \in Range(plan.AffectedSections[k].Reasons)
        /\ plan.AffectedSections[k].Score >= fileMatchScore

\* C19: every section with a source whose filePath is one of the subgraph's
\* updatedFiles is in the plan's affectedSections with reason file_source_match
\* and a score of at least 0.35, whether or not a source matches a node.
C19_FileMatchEmitted ==
    (pCall.called /\ pCall.model # <<>> /\ pCall.sg # <<>>) =>
        \A i \in FileMatched(pCall) :
            EmittedForFile(pCall.plan, pCall.model[1].Sections[i].ID)

-----------------------------------------------------------------------------
(***************************************************************************)
(* Pipeline runs: the generate command, IncrementalSync.Run and            *)
(* MarkdownGenerator.GenerateDocsWithReport, one action per stage.  A stage *)
(* that can fail takes its outcome as an input.  Of the report the stage    *)
(* names and statuses and the signal codes are kept; the directory "docs"   *)
(* can be created and written (dirOk) or not, for the whole run.            *)
(***************************************************************************)

MaxRunChanges == 1

RunInputs ==
    [force : BOOLEAN, changes : 0..MaxRunChanges, docExists : BOOLEAN, dirOk : BOOLEAN]

NewPipelineReport(mode) == [Mode |-> mode, Stages |-> <<>>, Signals |-> <<>>]

EndStage(report, name, status) ==
    [report EXCEPT !.Stages = Append(@, [Name |-> name, Status |-> status])]

AddSignal(report, code) == [report EXCEPT !.Signals = Append(@, code)]

\* PipelineReport.Save: the file after the call; MkdirAll or WriteFile failing
\* leaves it as it was
Save(report, file, dirOk) == IF dirOk THEN <<report>> ELSE file

\* the generate command and its run of the deferred function and the caller's
\* handling after GenerateDocsWithReport returned
StartGenerate ==
    /\ runMode = "none"
    /\ \E dirOk \in BOOLEAN :
        runIn' = [NoRunInput EXCEPT !.dirOk = dirOk]
    /\ runMode' = "generate"
    /\ runPc' = "init_store"
    /\ runReport' = <<NewPipelineReport("full_generate")>>
    /\ runExit' = "running"
    /\ UNCHANGED runFile
    /\ UNCHANGED <<storeVars, retrievalVars, indexVars, graphVars, docVars, chainVars,
                   calibVars, planVars, loadVars, genVars, healthVars, budgetVars, hydrateVars, memVars>>

\* a stage of the generate command whose error is fatal: the report is saved
\* and log.Fatalf ends the process
CommandStage(name, next, ok, signals) ==
    /\ runMode = "generate"
    /\ runPc = name
    /\ IF ok
       THEN /\ runReport' = <<EndStage(runReport[1], name, "ok")>>
            /\ runPc' = next
            /\ UNCHANGED <<runFile, runExit>>
       ELSE LET ended == EndStage(runReport[1], name, "error")
                report == IF signals = <<>> THEN ended ELSE AddSignal(ended, signals[1])
            IN  /\ runReport' = <<report>>
                /\ runFile' = Save(report, runFile, runIn.dirOk)
                /\ runPc' = "done"
                /\ runExit' = "fatal"
    /\ UNCHANGED <<runMode, runIn>>
    /\ UNCHANGED <<storeVars, retrievalVars, indexVars, graphVars, docVars, chainVars,
                   calibVars, planVars, loadVars, genVars, healthVars, budgetVars, hydrateVars, memVars>>

GenInitStore == \E ok \in BOOLEAN : CommandStage("init_store", "load_graph", ok, <<>>)

GenLoadGraph == \E ok \in BOOLEAN : CommandStage("load_graph", "init_engine", ok, <<>>)

GenInitEngine ==
    \E ok \in BOOLEAN :
        CommandStage("init_engine", "index_health", ok, <<"engine_init_failed">>)

\* index_health: no outcome of it ends the run
GenIndexHealth ==
    /\ runMode = "generate"
    /\ runPc = "index_health"
    /\ \E outcome \in {"ok", "index_health_assess_failed", "index_health_reassess_failed"} :
        runReport' =
            IF outcome = "ok" THEN <<EndStage(runReport[1], "index_health", "ok")>>
            ELSE <<AddSignal(EndStage(runReport[1], "index_health", "error"), outcome)>>
    /\ runPc' = "init_output_dir"
    /\ UNCHANGED <<runMode, runIn, runFile, runExit>>
    /\ UNCHANGED <<storeVars, retrievalVars, indexVars, graphVars, docVars, chainVars,
                   calibVars, planVars, loadVars, genVars, healthVars, budgetVars, hydrateVars, memVars>>

\* GenerateDocsWithReport returns: its deferred function saves the report, then
\* the generate command (on an error: one more signal, one more Save, Fatalf)
\* or documentationStage and Run (the error is returned) take over
DocsReturn(report, failed) ==
    LET deferred == IF failed THEN AddSignal(report, "full_generate_failed") ELSE report
        file1 == Save(deferred, runFile, runIn.dirOk)
        final == IF failed /\ runMode = "generate"
                 THEN AddSignal(deferred, "generate_docs_failed") ELSE deferred
    IN  /\ runReport' = <<final>>
        /\ runFile' = IF failed /\ runMode = "generate"
                      THEN Save(final, file1, runIn.dirOk) ELSE file1
        /\ runPc' = "done"
        /\ runExit' = IF failed THEN "fatal" ELSE "ok"

DocsInitOutputDir ==
    /\ runPc = "init_output_dir"
    /\ IF runIn.dirOk
       THEN /\ runReport' = <<EndStage(runReport[1], "init_output_dir", "ok")>>
            /\ runPc' = "prepare_chunks"
            /\ UNCHANGED <<runFile, runExit>>
       ELSE DocsReturn(EndStage(runReport[1], "init_output_dir", "error"), TRUE)
    /\ UNCHANGED <<runMode, runIn>>
    /\ UNCHANGED <<storeVars, retrievalVars, indexVars, graphVars, docVars, chainVars,
                   calibVars, planVars, loadVars, genVars, healthVars, budgetVars, hydrateVars, memVars>>

DocsPrepareChunks ==
    /\ runPc = "prepare_chunks"
    /\ \E anyChunks \in BOOLEAN :
        runReport' =
            LET ended == EndStage(runReport[1], "prepare_chunks", "ok")
            IN  <<IF anyChunks THEN ended ELSE AddSignal(ended, "no_chunks_prepared")>>
    /\ runPc' = "sections"
    /\ UNCHANGED <<runMode, runIn, runFile, runExit>>
    /\ UNCHANGED <<storeVars, retrievalVars, indexVars, graphVars, docVars, chainVars,
                   calibVars, planVars, loadVars, genVars, healthVars, budgetVars, hydrateVars, memVars>>

\* the loop over the scaffold sections: its stages all end "ok"
DocsSections ==
    /\ runPc = "sections"
    /\ runReport' = <<EndStage(runReport[1], "sections", "ok")>>
    /\ runPc' = "save_doc_model"
    /\ UNCHANGED <<runMode, runIn, runFile, runExit>>
    /\ UNCHANGED <<storeVars, retrievalVars, indexVars, graphVars, docVars, chainVars,
                   calibVars, planVars, loadVars, genVars, healthVars, budgetVars, hydrateVars, memVars>>

DocsSaveModel ==
    /\ runPc = "save_doc_model"
    /\ \E ok \in BOOLEAN :
        IF ok
        THEN /\ runReport' = <<EndStage(runReport[1], "save_doc_model", "ok")>>
             /\ runPc' = "render_markdown"
             /\ UNCHANGED <<runFile, runExit>>
        ELSE DocsReturn(EndStage(runReport[1], "save_doc_model", "error"), TRUE)
    /\ UNCHANGED <<runMode, runIn>>
    /\ UNCHANGED <<storeVars, retrievalVars, indexVars, graphVars, docVars, chainVars,
                   calibVars, planVars, loadVars, genVars, healthVars, budgetVars, hydrateVars, memVars>>

DocsRender ==
    /\ runPc = "render_markdown"
    /\ \E ok \in BOOLEAN :
        IF ok
        THEN DocsReturn(AddSignal(EndStage(runReport[1], "render_markdown", "ok"),
                                  "full_generate_complete"), FALSE)
        ELSE DocsReturn(EndStage(runReport[1], "render_markdown", "error"), TRUE)
    /\ UNCHANGED <<runMode, runIn>>
    /\ UNCHANGED <<storeVars, retrievalVars, indexVars, graphVars, docVars, chainVars,
                   calibVars, planVars, loadVars, genVars, healthVars, budgetVars, hydrateVars, memVars>>

StartSync ==
    /\ runMode = "none"
    /\ runIn' \in RunInputs
    /\ runMode' = "sync"
    /\ runPc' = "detect_changes"
    /\ runExit' = "running"
    /\ UNCHANGED <<runReport, runFile>>
    /\ UNCHANGED <<storeVars, retrievalVars, indexVars, graphVars, docVars, chainVars,
                   calibVars, planVars, loadVars, genVars, healthVars, budgetVars, hydrateVars, memVars>>

\* a stage of IncrementalSync.Run: its error is returned to the update command
RunStage(name, next, ok) ==
    /\ runMode = "sync"
    /\ runPc = name
    /\ IF ok
       THEN /\ runPc' = next
            /\ UNCHANGED runExit
       ELSE /\ runPc' = "done"
            /\ runExit' = "fatal"
    /\ UNCHANGED <<runMode, runIn, runReport, runFile>>
    /\ UNCHANGED <<storeVars, retrievalVars, indexVars, graphVars, docVars, chainVars,
                   calibVars, planVars, loadVars, genVars, healthVars, budgetVars, hydrateVars, memVars>>

SyncDetectChanges ==
    /\ runMode = "sync"
    /\ runPc = "detect_changes"
    /\ \E ok \in BOOLEAN :
        IF ~ok
        THEN /\ runPc' = "done"
             /\ runExit' = "fatal"
        ELSE IF runIn.changes = 0 /\ ~runIn.force
        THEN /\ runPc' = "done"
             /\ runExit' = "ok"
        ELSE /\ runPc' = "init_store_sync"
             /\ UNCHANGED runExit
    /\ UNCHANGED <<runMode, runIn, runReport, runFile>>
    /\ UNCHANGED <<storeVars, retrievalVars, indexVars, graphVars, docVars, chainVars,
                   calibVars, planVars, loadVars, genVars, healthVars, budgetVars, hydrateVars, memVars>>

SyncInitStore == \E ok \in BOOLEAN : RunStage("init_store_sync", "graph_update", ok)

SyncGraphUpdate == \E ok \in BOOLEAN : RunStage("graph_update", "save_graph", ok)

SyncSaveGraph == \E ok \in BOOLEAN : RunStage("save_graph", "planning", ok)

\* impactAnalysisStage and retrievalPlanningStage: they return no error
SyncPlanning == RunStage("planning", "documentation", TRUE)

\* documentationStage up to its return or its call of GenerateDocs
SyncDocumentation ==
    /\ runMode = "sync"
    /\ runPc = "documentation"
    /\ \E engineOk \in BOOLEAN, updateOk \in BOOLEAN :
        IF ~engineOk \/ (runIn.docExists /\ updateOk)
        THEN /\ runPc' = "done"
             /\ runExit' = "ok"
             /\ UNCHANGED runReport
        ELSE /\ runPc' = "init_output_dir"
             /\ runReport' = <<NewPipelineReport("full_generate")>>
             /\ UNCHANGED runExit
    /\ UNCHANGED <<runMode, runIn, runFile>>
    /\ UNCHANGED <<storeVars, retrievalVars, indexVars, graphVars, docVars, chainVars,
                   calibVars, planVars, loadVars, genVars, healthVars, budgetVars, hydrateVars, memVars>>

InitRun ==
    /\ IdleStore
    /\ IdleRetrieval
    /\ IdleIndex
    /\ IdleGraph
    /\ IdleDoc
    /\ IdleChain
    /\ IdleCalib
    /\ IdlePlan
    /\ IdleRun
    /\ IdleLoad
    /\ IdleGen
    /\ IdleHealth
    /\ IdleBudget
    /\ IdleHydrate
    /\ IdleMem

NextRun ==
    \/ StartGenerate
    \/ GenInitStore
    \/ GenLoadGraph
    \/ GenInitEngine
    \/ GenIndexHealth
    \/ DocsInitOutputDir
    \/ DocsPrepareChunks
    \/ DocsSections
    \/ DocsSaveModel
    \/ DocsRender
    \/ StartSync
    \/ SyncDetectChanges
    \/ SyncInitStore
    \/ SyncGraphUpdate
    \/ SyncSaveGraph
    \/ SyncPlanning
    \/ SyncDocumentation

SpecRun == InitRun /\ [][NextRun]_vars

\* C20: a run that has terminated, in success or by a fatal stage error, full
\* generation or incremental sync, has written the pipeline report (where the
\* output directory can be written at all).
C20_ReportBeforeExit ==
    (runExit \in {"ok", "fatal"} /\ runIn.dirOk) => runFile # <<>>

-----------------------------------------------------------------------------
(***************************************************************************)
(* Further claims on the engine, its index and the graph stage              *)
(***************************************************************************)

\* C21: when IndexIncrementalWithOptions returns an error, the items visible
\* in the index are the ones that were visible before the call.
C21_FailedRunLeavesIndex ==
    (iRun.op = "incremental" /\ iRun.err # "") => ItemIDs(mItems) = iRun.preIDs

\* the ids the outcome of a changed path delivers
OutcomeIDs(outcome) == {outcome.units[i].id : i \in 1..Len(outcome.units)}

\* C22: a symbol that was in the graph before an incremental update and is
\* absent after it belongs to a changed file that no longer exists, or to a
\* changed file whose re-extraction succeeded without producing the symbol.
C22_RemovedOnlyByDeleteOrReextract ==
    gUpdate.done =>
        \A id \in DOMAIN gUpdate.before \ DOMAIN gNodes :
            LET path == gUpdate.before[id].file
            IN  /\ path \in DOMAIN gUpdate.outcomes
                /\ \/ gUpdate.outcomes[path].kind = "deleted"
                   \/ /\ gUpdate.outcomes[path].kind = "units"
                      /\ id \notin OutcomeIDs(gUpdate.outcomes[path])

-----------------------------------------------------------------------------
(***************************************************************************)
(* Doc model loaders: DocUpdater.loadOrBootstrapModel and                   *)
(* IncrementalSync.loadDocModelForPlanning.  doc_model.json is absent, is   *)
(* not JSON ("corrupt") or holds a model ("json"); documentation.md is      *)
(* absent (<<>>) or holds Markdown.                                         *)
(***************************************************************************)

LoadFiles ==
    {AbsentFile, [state |-> "corrupt", model |-> <<>>]}
    \cup {[state |-> "json", model |-> <<m>>] : m \in {x \in InputModels : Len(x.Sections) <= 1}}

LoadDocs == {<<>>} \cup {<<Join(ls, "\n")>> : ls \in SeqsUpTo(MdLines, 1)}

LoadInputs == [file : LoadFiles, doc : LoadDocs, schema : SchemaStates, dirOk : BOOLEAN]

\* generator.LoadDocModel: os.ReadFile, then json.Unmarshal; nothing else is checked
ReadDocModel(file) ==
    IF file.state = "absent" THEN [err |-> "not exist", model |-> <<>>]
    ELSE IF file.state = "corrupt" THEN [err |-> "unmarshal", model |-> <<>>]
    ELSE [err |-> "", model |-> file.model]

loadOrBootstrapModel(in) ==
    LET loaded == ReadDocModel(in.file)
    IN  IF loaded.err = "" THEN [err |-> "", model |-> loaded.model, file |-> in.file]
        ELSE IF loaded.err # "not exist"
        THEN [err |-> "failed to load doc model", model |-> <<>>, file |-> in.file]
        ELSE IF in.doc = <<>>
        THEN [err |-> "documentation file not found", model |-> <<>>, file |-> in.file]
        ELSE LET model == <<BuildModelFromMarkdown(in.doc[1])>>
             IN  IF validateDocModelWithSchema(in.schema, model) # "" \/ ~in.dirOk
                 THEN [err |-> "failed to bootstrap doc model", model |-> <<>>,
                       file |-> in.file]
                 ELSE [err |-> "", model |-> model,
                       file |-> [state |-> "json", model |-> model]]

loadDocModelForPlanning(in) ==
    LET loaded == ReadDocModel(in.file)
    IN  IF loaded.err = "" THEN [err |-> "", model |-> loaded.model, file |-> in.file]
        ELSE IF loaded.err # "not exist"
        THEN [err |-> loaded.err, model |-> <<>>, file |-> in.file]
        ELSE IF in.doc = <<>>
        THEN [err |-> "not exist", model |-> <<>>, file |-> in.file]
        ELSE [err |-> "", model |-> <<BuildModelFromMarkdown(in.doc[1])>>, file |-> in.file]

InitLoad ==
    /\ IdleStore
    /\ IdleRetrieval
    /\ IdleIndex
    /\ IdleGraph
    /\ IdleDoc
    /\ IdleChain
    /\ IdleCalib
    /\ IdlePlan
    /\ IdleRun
    /\ IdleGen
    /\ IdleHealth
    /\ IdleBudget
    /\ IdleHydrate
    /\ IdleMem
    /\ lIn \in LoadInputs
    /\ lOut = NoLoad

\* UpdateDocs loads the model
LoadForUpdate ==
    /\ lOut.caller = "none"
    /\ lOut' = [caller |-> "update"] @@ loadOrBootstrapModel(lIn)
    /\ UNCHANGED lIn
    /\ UNCHANGED <<storeVars, retrievalVars, indexVars, graphVars, docVars, chainVars,
                   calibVars, planVars, runVars, genVars, healthVars, budgetVars, hydrateVars, memVars>>

\* retrievalPlanningStage loads the model
LoadForPlanning ==
    /\ lOut.caller = "none"
    /\ lOut' = [caller |-> "planning"] @@ loadDocModelForPlanning(lIn)
    /\ UNCHANGED lIn
    /\ UNCHANGED <<storeVars, retrievalVars, indexVars, graphVars, docVars, chainVars,
                   calibVars, planVars, runVars, genVars, healthVars, budgetVars, hydrateVars, memVars>>

NextLoad ==
    \/ LoadForUpdate
    \/ LoadForPlanning

SpecLoad == InitLoad /\ [][NextLoad]_vars

\* doc_model.json exists and is not a valid model: it is no JSON, or the model
\* in it fails Validate or the schema
InvalidModelFile(in) ==
    \/ in.file.state = "corrupt"
    \/ /\ in.file.state = "json"
       /\ validateDocModelWithSchema("ok", in.file.model) # ""

\* C23: when doc_model.json exists and is not a valid model and the Markdown
\* document is there, the loader of the doc update returns without an error
\* the model built from the Markdown document.
C23_InvalidModelBootstraps ==
    (lOut.caller = "update" /\ InvalidModelFile(lIn) /\ lIn.doc # <<>>
        /\ lIn.schema = "ok" /\ lIn.dirOk) =>
        /\ lOut.err = ""
        /\ lOut.model = <<BuildModelFromMarkdown(lIn.doc[1])>>

-----------------------------------------------------------------------------
(***************************************************************************)
(* Full-document generation: MarkdownGenerator.GenerateDocsWithReport and   *)
(* generateSectionContent.  A Markdown text is kept as the features the     *)
(* writer-quality gates read: its line counts by class and the set of       *)
(* tokens it contains (marks).  instr counts the lines that start with an   *)
(* instruction verb ("Write 3-5 feature sections"), artifacts the lines     *)
(* that echo the prompt ("=== SECTION DRAFT ==="); both are paragraph-class *)
(* lines.  Scores are in hundredths; the backquote is written ^.           *)
(***************************************************************************)
llmBudgetInit == 1
writerQualityTarget == 55
fallbackQualityFloor == 45
DiagramLines == 4

KeyFeaturesID == <<"key", "-", "features">>
OverviewID == <<"overview">>
DevelopmentID == <<"development">>

FlowHeading == "## end-to-end flow"
SnapshotHeading == "## architecture snapshot"
FlowBlock == "## end-to-end flow + ^^^mermaid"
SnapshotBlock == "## architecture snapshot + ^^^mermaid"

MdText(h1, h2, bullets, paragraphs, instr, artifacts, marks) ==
    [h1 |-> h1, h2 |-> h2, bullets |-> bullets, paragraphs |-> paragraphs,
     instr |-> instr, artifacts |-> artifacts, marks |-> marks]

EmptyText == MdText(0, 0, 0, 0, 0, 0, {})

TotalLines(t) == t.h1 + t.h2 + t.bullets + t.paragraphs + t.instr + t.artifacts

ParagraphLines(t) == t.paragraphs + t.instr + t.artifacts

IsEmptyText(t) == TotalLines(t) = 0

\* the tokens a mark contains as substrings
TokensOf(m) ==
    IF m = "module ^" THEN {m, "^"}
    ELSE IF m = "package ^" THEN {m, "^"}
    ELSE IF m = ".go^" THEN {m, ".go", "^"}
    ELSE IF m = ".go " THEN {m, ".go"}
    ELSE IF m = "^^^mermaid" THEN {m, "^"}
    ELSE IF m = FlowBlock THEN {FlowHeading, "^^^mermaid", "^"}
    ELSE IF m = SnapshotBlock THEN {SnapshotHeading, "^^^mermaid", "^"}
    ELSE {m}

\* strings.Contains(strings.ToLower(text), tok)
HasToken(t, tok) ==
    \/ \E m \in t.marks : tok \in TokensOf(m)
    \/ t.instr > 0 /\ tok \in {"write ", "write 3-5 feature"}
    \/ t.artifacts > 0 /\ tok = "section draft"

DropLines(t) == IF IsEmptyText(t) THEN EmptyText ELSE t

sanitizeGeneratedSection(t) == DropLines([t EXCEPT !.instr = 0])

stripPromptArtifacts(t) == DropLines([t EXCEPT !.artifacts = 0])

WalkthroughTokens == {"module ^", ".go^", ".go ", "package ^", "containing:"}

PlaceholderTokens == {"explain the", "describe the", "write ", "must include", "tbd", "placeholder"}

assessWriterQuality(sectionID, t) ==
    IF IsEmptyText(t) THEN 0
    ELSE LET listHeavy == IF TotalLines(t) > 0 /\ t.bullets * 100 > 45 * TotalLines(t) THEN 25 ELSE 0
             fewParagraphs == IF ParagraphLines(t) < 2 THEN 20 ELSE 0
             walkthrough ==
                 IF Cardinality({tok \in WalkthroughTokens : HasToken(t, tok)}) >= 2 THEN 35 ELSE 0
             placeholder == IF \E tok \in PlaceholderTokens : HasToken(t, tok) THEN 20 ELSE 0
             noDiagram ==
                 IF sectionID = OverviewID /\ ~HasToken(t, "^^^mermaid") THEN 20 ELSE 0
             fewFeatures == IF sectionID = KeyFeaturesID /\ t.h2 < 2 THEN 20 ELSE 0
             noAnchors == IF sectionID = KeyFeaturesID /\ ~HasToken(t, "^") THEN 15 ELSE 0
         IN  max(0, 100 - listHeavy - fewParagraphs - walkthrough - placeholder
                        - noDiagram - fewFeatures - noAnchors)

isLowQualitySection(sectionID, t) ==
    \/ IsEmptyText(t)
    \/ HasToken(t, "## capability 1") \/ HasToken(t, "## capability 2")
    \/ HasToken(t, "m u s t include") \/ HasToken(t, "write 3-5 feature")
    \/ sectionID = OverviewID /\ ~HasToken(t, "^^^mermaid")
    \/ sectionID = KeyFeaturesID /\ (t.h2 < 2 \/ HasToken(t, ".go"))

\* injectDiagram and upsertSectionMermaid: the generated diagram goes under
\* the heading, which is appended when the text lacks it; a mermaid block
\* already under the heading is replaced (in the texts drawn here such a
\* block has the generated diagram in length)
upsertSectionMermaid(t, heading, block) ==
    IF IsEmptyText(t)
    THEN MdText(0, 1, 0, DiagramLines, 0, 0, {block})
    ELSE IF ~HasToken(t, heading)
    THEN [t EXCEPT !.h2 = @ + 1, !.paragraphs = @ + DiagramLines, !.marks = @ \cup {block}]
    ELSE IF block \in t.marks
    THEN t
    ELSE [t EXCEPT !.paragraphs = @ + DiagramLines, !.marks = @ \cup {block}]

enrichSectionWithDiagrams(sectionID, t) ==
    IF IsEmptyText(t) THEN t
    ELSE IF sectionID = OverviewID THEN upsertSectionMermaid(t, FlowHeading, FlowBlock)
    ELSE IF sectionID = DevelopmentID THEN upsertSectionMermaid(t, SnapshotHeading, SnapshotBlock)
    ELSE t

applyLowEvidencePolicy(t) ==
    IF IsEmptyText(t) THEN t
    ELSE IF HasToken(t, "## evidence limitations") THEN t
    ELSE [t EXCEPT !.h2 = @ + 1, !.paragraphs = @ + 1,
                   !.marks = @ \cup {"## evidence limitations"}]

BuildDefaultFullDocPlan ==
    << [SectionID |-> OverviewID, AllowLLM |-> FALSE],
       [SectionID |-> KeyFeaturesID, AllowLLM |-> TRUE],
       [SectionID |-> DevelopmentID, AllowLLM |-> FALSE] >>

fallbackSectionPlan(id) == [SectionID |-> id, AllowLLM |-> FALSE]

\* fullPlan.SectionByID(sec.ID), else fallbackSectionPlan(sec)
SectionPlanFor(id) ==
    IF \E i \in 1..Len(BuildDefaultFullDocPlan) : BuildDefaultFullDocPlan[i].SectionID = id
    THEN BuildDefaultFullDocPlan[
             CHOOSE i \in 1..Len(BuildDefaultFullDocPlan) :
                 BuildDefaultFullDocPlan[i].SectionID = id]
    ELSE fallbackSectionPlan(id)

\* the texts of the model's inputs
TGood == MdText(1, 3, 2, 4, 0, 0, {"^"})
TWalk == MdText(1, 2, 2, 1, 0, 0, {"module ^", "containing:"})
TList == MdText(1, 2, 5, 1, 0, 0, {})
TInstr == MdText(1, 2, 1, 2, 1, 0, {"^"})
TFlow == MdText(1, 2, 1, 4, 0, 1, {FlowBlock})
TFeature == MdText(1, 2, 3, 2, 0, 0, {"^"})

LLMError == [err |-> TRUE, text |-> EmptyText]

LLMReply(t) == [err |-> FALSE, text |-> t]

RenderReplies == {LLMError, LLMReply(TWalk), LLMReply(TInstr), LLMReply(TFlow)}

RewriteReplies == {LLMError, LLMReply(TGood), LLMReply(TWalk)}

LiftReplies == {LLMError, LLMReply(TWalk)}

\* what the deterministic builders make of a section's chunks: a valid
\* draft with its rendering or no valid draft, the built section, the
\* capabilities' need of a semantic lift, the evidence pack's LowEvidence
Evidence(draftValid, draft, built, lift, lowEvidence) ==
    [draftValid |-> draftValid, draft |-> draft, built |-> built, lift |-> lift,
     lowEvidence |-> lowEvidence]

SectionEvidence ==
    { Evidence(TRUE, TGood, TGood, FALSE, FALSE),
      Evidence(TRUE, TList, TList, TRUE, FALSE),
      Evidence(FALSE, EmptyText, TGood, TRUE, FALSE),
      Evidence(FALSE, EmptyText, TList, FALSE, TRUE) }

SectionInputs ==
    { [ev |-> ev, render |-> r, rewrite |-> w, lift |-> w2] :
        ev \in SectionEvidence, r \in RenderReplies, w \in RewriteReplies,
        w2 \in LiftReplies }

NoLLM == [ok |-> FALSE, text |-> EmptyText]

tryRenderDraftWithLLM(sectionID, reply) ==
    IF reply.err THEN NoLLM
    ELSE LET generated == stripPromptArtifacts(sanitizeGeneratedSection(reply.text))
         IN  IF IsEmptyText(generated) THEN NoLLM
             ELSE IF isLowQualitySection(sectionID, generated) THEN NoLLM
             ELSE [ok |-> TRUE, text |-> generated]

tryLLMSectionRewrite(sectionID, reply) ==
    IF reply.err THEN NoLLM
    ELSE LET generated == sanitizeGeneratedSection(reply.text)
         IN  IF IsEmptyText(generated) THEN NoLLM
             ELSE IF isLowQualitySection(sectionID, generated) THEN NoLLM
             ELSE [ok |-> TRUE, text |-> generated]

buildFallbackSection(sectionID, in) ==
    IF sectionID = KeyFeaturesID THEN TFeature ELSE in.ev.built

LLMCall(sectionID, method) == [section |-> sectionID, method |-> method]

SectionResult(content, origin, usedDraft, usedLLM, usedFallback, budget, calls) ==
    [content |-> content, origin |-> origin,
     trace |-> [UsedDraft |-> usedDraft, UsedLLM |-> usedLLM, UsedFallback |-> usedFallback],
     budget |-> budget, calls |-> calls]

\* the acceptance test of the draft stage
MeetsTarget(sectionID, t) ==
    ~isLowQualitySection(sectionID, t) /\ assessWriterQuality(sectionID, t) >= writerQualityTarget

\* the rejection test of the deterministic stage
BelowFloor(sectionID, t) ==
    isLowQualitySection(sectionID, t) \/ assessWriterQuality(sectionID, t) < fallbackQualityFloor

\* the deterministic stage after its semantic lift: the built or lifted
\* content unless it is below the floor, else the fallback section
FinalStage(sectionID, in, render, lift, budget, calls) ==
    LET budget2 == IF lift.ok THEN budget - 1 ELSE budget
        content3 ==
            enrichSectionWithDiagrams(sectionID, IF lift.ok THEN lift.text ELSE in.ev.built)
    IN  IF BelowFloor(sectionID, content3)
        THEN SectionResult(
                 enrichSectionWithDiagrams(sectionID, buildFallbackSection(sectionID, in)),
                 "fallback", in.ev.draftValid, render.ok \/ lift.ok, TRUE, budget2, calls)
        ELSE SectionResult(content3, IF lift.ok THEN "llm" ELSE "builder",
                           in.ev.draftValid, render.ok \/ lift.ok, FALSE, budget2, calls)

\* the switch on sec.ID: only key-features asks for a semantic lift
DeterministicStage(sectionID, secPlan, in, budget, summarizer, render, calls) ==
    LET askLift ==
            /\ sectionID = KeyFeaturesID /\ in.ev.lift
            /\ secPlan.AllowLLM /\ budget > 0 /\ summarizer
    IN  FinalStage(sectionID, in, render,
                   IF askLift THEN tryLLMSectionRewrite(sectionID, in.lift) ELSE NoLLM,
                   budget,
                   IF askLift THEN calls \o <<LLMCall(sectionID, "UpdateDocSection")>>
                   ELSE calls)

\* the rewrite of a draft that missed the target
RewriteStage(sectionID, secPlan, in, budget, summarizer, render, rewrite, calls) ==
    LET budget1 == IF rewrite.ok THEN budget - 1 ELSE budget
        content2 == enrichSectionWithDiagrams(sectionID, rewrite.text)
    IN  IF rewrite.ok /\ MeetsTarget(sectionID, content2)
        THEN SectionResult(content2, "llm", TRUE, TRUE, FALSE, budget1, calls)
        ELSE DeterministicStage(sectionID, secPlan, in, budget1, summarizer, render, calls)

\* the draft stage once the draft is rendered
DraftStage(sectionID, secPlan, in, budget, summarizer, render, calls) ==
    LET content1 ==
            enrichSectionWithDiagrams(sectionID, IF render.ok THEN render.text ELSE in.ev.draft)
    IN  IF in.ev.draftValid /\ MeetsTarget(sectionID, content1)
        THEN SectionResult(content1, IF render.ok THEN "llm" ELSE "draft",
                           TRUE, render.ok, FALSE, budget, calls)
        ELSE IF in.ev.draftValid /\ summarizer /\ secPlan.AllowLLM /\ budget > 0
        THEN RewriteStage(sectionID, secPlan, in, budget, summarizer, render,
                          tryLLMSectionRewrite(sectionID, in.rewrite),
                          calls \o <<LLMCall(sectionID, "UpdateDocSection")>>)
        ELSE DeterministicStage(sectionID, secPlan, in, budget, summarizer, render, calls)

generateSectionContent(sectionID, secPlan, in, budget, summarizer) ==
    LET askRender == in.ev.draftValid /\ summarizer
    IN  DraftStage(sectionID, secPlan, in, budget, summarizer,
                   IF askRender THEN tryRenderDraftWithLLM(sectionID, in.render) ELSE NoLLM,
                   IF askRender THEN <<LLMCall(sectionID, "RenderSectionFromDraft")>>
                   ELSE <<>>)

InitGen ==
    /\ IdleStore
    /\ IdleRetrieval
    /\ IdleIndex
    /\ IdleGraph
    /\ IdleDoc
    /\ IdleChain
    /\ IdleCalib
    /\ IdlePlan
    /\ IdleRun
    /\ IdleLoad
    /\ IdleHealth
    /\ IdleBudget
    /\ IdleHydrate
    /\ IdleMem
    /\ genSummarizer \in BOOLEAN
    /\ genPos = 0
    /\ llmBudget = 0
    /\ genCalls = <<>>
    /\ genSections = <<>>

\* GenerateDocsWithReport up to its section loop
StartGenerateDocs ==
    /\ genPos = 0
    /\ genPos' = 1
    /\ llmBudget' = llmBudgetInit
    /\ genCalls' = <<>>
    /\ genSections' = <<>>
    /\ UNCHANGED genSummarizer
    /\ UNCHANGED <<storeVars, retrievalVars, indexVars, graphVars, docVars, chainVars,
                   calibVars, planVars, runVars, loadVars, healthVars, budgetVars, hydrateVars, memVars>>

\* one turn of the section loop of GenerateDocsWithReport
GenerateSection ==
    /\ genPos \in 1..Len(canonicalSectionOrder)
    /\ \E in \in SectionInputs :
        \E res \in {generateSectionContent(
                        canonicalSectionOrder[genPos],
                        SectionPlanFor(canonicalSectionOrder[genPos]),
                        in, llmBudget, genSummarizer)} :
            /\ llmBudget' = res.budget
            /\ genCalls' = genCalls \o res.calls
            /\ genSections' = Append(genSections,
                   [ID |-> canonicalSectionOrder[genPos],
                    ContentMD |-> IF in.ev.lowEvidence
                                  THEN applyLowEvidencePolicy(res.content)
                                  ELSE res.content,
                    returned |-> res.content,
                    origin |-> res.origin, trace |-> res.trace])
    /\ genPos' = genPos + 1
    /\ UNCHANGED genSummarizer
    /\ UNCHANGED <<storeVars, retrievalVars, indexVars, graphVars, docVars, chainVars,
                   calibVars, planVars, runVars, loadVars, healthVars, budgetVars, hydrateVars, memVars>>

NextGen == StartGenerateDocs \/ GenerateSection

SpecGen == InitGen /\ [][NextGen]_vars

\* C24: in one full-document generation run the summarizer is invoked at
\* most once in total across all sections
C24_AtMostOneLLMCall == Len(genCalls) <= llmBudgetInit

\* C26: the summarizer is invoked for a section only if the section's plan
\* allows LLM use, so overview and development get no call
C26_CallsOnlyWhereAllowed ==
    \A i \in 1..Len(genCalls) : SectionPlanFor(genCalls[i].section).AllowLLM

\* C27: content produced by the LLM is a section's returned content only if
\* its writer quality is at least 0.55 and it is not a low-quality section
C27_LLMContentMeetsTarget ==
    \A i \in 1..Len(genSections) :
        genSections[i].origin = "llm"
            => MeetsTarget(genSections[i].ID, genSections[i].returned)

-----------------------------------------------------------------------------
(***************************************************************************)
(* Index health before full generation: the index_health stage of the       *)
(* generate command.  A ratio is kept exactly, as <<numerator,              *)
(* denominator>>; thresholds are in hundredths.                             *)
(***************************************************************************)
MaxHealthIDs == 3
freshnessMin == 85
coverageMin == 70
staleRatioMax == 15

BlankID == 0

HealthIDs == BlankID..MaxHealthIDs

RatioBelow(r, hundredths) == r[1] * 100 < hundredths * r[2]

RatioAbove(r, hundredths) == r[1] * 100 > hundredths * r[2]

clamp01(r) ==
    IF r[1] < 0 THEN <<0, 1>>
    ELSE IF r[1] > r[2] THEN <<1, 1>>
    ELSE r

\* the IDs that are not blank
NonBlank(ids) == ids \ {BlankID}

reassessIndexHealth(indexedIDs, expectedSet) ==
    LET indexedSet == NonBlank(indexedIDs)
        intersection == Cardinality(expectedSet \cap indexedSet)
        missing == Cardinality(expectedSet \ indexedSet)
        staleIDs == indexedSet \ expectedSet
        expectedTotal == Cardinality(expectedSet)
        indexedTotal == Cardinality(indexedSet)
        coverage == IF expectedTotal > 0 THEN <<intersection, expectedTotal>> ELSE <<1, 1>>
        denom == max(expectedTotal, indexedTotal)
        freshness ==
            IF denom > 0 THEN <<denom - (missing + Cardinality(staleIDs)), denom>>
            ELSE <<1, 1>>
        staleRatio ==
            IF indexedTotal > 0 THEN <<Cardinality(staleIDs), indexedTotal>> ELSE <<0, 1>>
    IN  [metrics |->
             [ExpectedChunks |-> expectedTotal, IndexedChunks |-> indexedTotal,
              MissingChunks |-> missing, StaleChunks |-> Cardinality(staleIDs),
              Coverage |-> clamp01(coverage), Freshness |-> clamp01(freshness),
              StaleRatio |-> clamp01(staleRatio)],
         staleIDs |-> staleIDs]

assessIndexHealth(preparedIDs, indexedIDs) ==
    LET expectedSet == NonBlank(preparedIDs)
    IN  [expectedSet |-> expectedSet,
         metrics |-> reassessIndexHealth(indexedIDs, expectedSet).metrics]

shouldRebuildIndex(m) ==
    IF m.IndexedChunks = 0 THEN TRUE
    ELSE IF m.ExpectedChunks = 0 THEN FALSE
    ELSE \/ RatioBelow(m.Freshness, freshnessMin)
         \/ RatioBelow(m.Coverage, coverageMin)
         \/ RatioAbove(m.StaleRatio, staleRatioMax)

InitHealth ==
    /\ IdleStore
    /\ IdleRetrieval
    /\ IdleIndex
    /\ IdleGraph
    /\ IdleDoc
    /\ IdleChain
    /\ IdleCalib
    /\ IdlePlan
    /\ IdleRun
    /\ IdleLoad
    /\ IdleGen
    /\ IdleBudget
    /\ IdleHydrate
    /\ IdleMem
    /\ hExpected \in SUBSET HealthIDs
    /\ hIndexed \in SUBSET HealthIDs
    /\ hStage = NoStage

\* the index_health stage: the assessment (the store may fail to list its
\* chunk IDs, which ends the stage), the rebuild where shouldRebuildIndex asks
\* for one (it upserts the expected chunks, or fails and leaves the index),
\* the reassessment, the cleanup of the stale chunks (which may fail)
IndexHealthStage ==
    /\ ~hStage.done
    /\ \/ /\ hStage' = [NoStage EXCEPT !.done = TRUE, !.err = "index_health_assess_failed"]
          /\ UNCHANGED hIndexed
       \/ \E rebuildOk \in BOOLEAN, cleanupOk \in BOOLEAN :
        LET assessed == assessIndexHealth(hExpected, hIndexed)
            rebuild == shouldRebuildIndex(assessed.metrics)
            indexed1 == IF rebuild /\ rebuildOk THEN hIndexed \cup assessed.expectedSet
                        ELSE hIndexed
            again == reassessIndexHealth(indexed1, assessed.expectedSet)
            cleaned == again.staleIDs # {} /\ cleanupOk
            healthAfter == IF cleaned
                           THEN [again.metrics EXCEPT !.StaleChunks = 0, !.StaleRatio = <<0, 1>>]
                           ELSE again.metrics
        IN  /\ hIndexed' = IF cleaned THEN indexed1 \ again.staleIDs ELSE indexed1
            /\ hStage' = [done |-> TRUE, err |-> "",
                          mode |-> IF rebuild THEN "rebuild_full" ELSE "reuse",
                          before |-> assessed.metrics, after |-> healthAfter]
    /\ UNCHANGED hExpected
    /\ UNCHANGED <<storeVars, retrievalVars, indexVars, graphVars, docVars, chainVars,
                   calibVars, planVars, runVars, loadVars, genVars, budgetVars, hydrateVars, memVars>>

NextHealth == IndexHealthStage

SpecHealth == InitHealth /\ [][NextHealth]_vars

\* C25: before full generation a full index rebuild is triggered exactly
\* when the indexed chunk set is empty, or freshness < 0.85, or coverage <
\* 0.70, or staleRatio > 0.15, whatever the expected and indexed chunk sets
C25_RebuildExactlyWhenUnhealthy ==
    (hStage.done /\ hStage.err = "") =>
        (hStage.mode = "rebuild_full"
            <=> \/ hStage.before.IndexedChunks = 0
                \/ RatioBelow(hStage.before.Freshness, freshnessMin)
                \/ RatioBelow(hStage.before.Coverage, coverageMin)
                \/ RatioAbove(hStage.before.StaleRatio, staleRatioMax))

-----------------------------------------------------------------------------
(***************************************************************************)
(* limitChunksByBudget on chunk lists longer than those an engine graph of  *)
(* the index component yields: a pool of symbol chunks and a pool of        *)
(* file-module chunks with distinct IDs, in priority order as               *)
(* PrepareSearchChunks returns them.                                        *)
(***************************************************************************)
MaxPoolSymbols == 11
MaxPoolFiles == 2
MaxPoolBudget == 12

PoolSymbolIDs == SelectSeq(ChunkIDOrder, LAMBDA id : id \notin IndexFiles)

PoolFileIDs == SelectSeq(ChunkIDOrder, LAMBDA id : id \in IndexFiles)

PoolSymbol(id) ==
    [id |-> id, filePath |-> "pkg/a.go", name |-> "alpha", unitType |-> "function",
     hash |-> <<"h1">>, deps |-> 0, usedBy |-> 0]

PoolFile(id) ==
    [id |-> id, filePath |-> id, name |-> FileBase(id), unitType |-> "file_module",
     hash |-> <<"h1">>, deps |-> 0, usedBy |-> 0]

PoolChunks(nSymbols, nFiles) ==
    sortChunksByPriority(
        [i \in 1..nSymbols |-> PoolSymbol(PoolSymbolIDs[i])]
        \o [i \in 1..nFiles |-> PoolFile(PoolFileIDs[i])])

ChunkIDs(chunks) == {chunks[i].id : i \in 1..Len(chunks)}

InitBudget ==
    /\ IdleStore
    /\ IdleRetrieval
    /\ IdleIndex
    /\ IdleGraph
    /\ IdleDoc
    /\ IdleChain
    /\ IdleCalib
    /\ IdlePlan
    /\ IdleRun
    /\ IdleLoad
    /\ IdleGen
    /\ IdleHealth
    /\ IdleHydrate
    /\ IdleMem
    /\ \E nSymbols \in 0..minInt(MaxPoolSymbols, Len(PoolSymbolIDs)),
          nFiles \in 0..minInt(MaxPoolFiles, Len(PoolFileIDs)) :
            bChunks = PoolChunks(nSymbols, nFiles)
    /\ bMax \in 0..MaxPoolBudget
    /\ bOut = NoBudgetCall

LimitChunks ==
    /\ ~bOut.called
    /\ bOut' = [called |-> TRUE, out |-> limitChunksByBudget(bChunks, bMax)]
    /\ UNCHANGED <<bChunks, bMax>>
    /\ UNCHANGED <<storeVars, retrievalVars, indexVars, graphVars, docVars, chainVars,
                   calibVars, planVars, runVars, loadVars, genVars, healthVars, hydrateVars, memVars>>

NextBudget == LimitChunks

SpecBudget == InitBudget /\ [][NextBudget]_vars

\* C28: when more chunks are available than the budget max > 0,
\* limitChunksByBudget returns exactly max chunks with distinct IDs, each pool
\* filling the capacity the other leaves unused
C28_ExactlyMaxDistinct ==
    (bOut.called /\ bMax > 0 /\ Len(bChunks) > bMax) =>
        /\ Len(bOut.out) = bMax
        /\ Cardinality(ChunkIDs(bOut.out)) = bMax

-----------------------------------------------------------------------------
(***************************************************************************)
(* Evidence hydration: hydrateSourceBlock.  A source file is its number of  *)
(* lines (strings.Split of the body by "\n") and which of them are blank:   *)
(* none, the last one (a body that ends in a newline) or all.               *)
(***************************************************************************)
MaxFileLines == 70
MaxSrcLine == 75
MaxBlockLines == 60
contextWindow == 4

SourceFile(state, lines, blank) == [state |-> state, lines |-> lines, blank |-> blank]

FileLengths == {1, 3, 8, MaxFileLines}

SourceFiles ==
    {SourceFile("nopath", 1, "none"), SourceFile("unreadable", 1, "none")}
    \cup {SourceFile("ok", n, b) : n \in FileLengths, b \in {"none", "last", "all"}}

HydrateInputs ==
    [file : SourceFiles, startLine : -1..MaxSrcLine, endLine : -1..MaxSrcLine]

\* strings.TrimSpace(strings.Join(lines[start-1:end], "\n")) == ""
BlankSnippet(file, start, end) ==
    \/ start > end
    \/ file.blank = "all"
    \/ file.blank = "last" /\ start = file.lines

HydrateResult(result, start, end) ==
    [called |-> TRUE, result |-> result, start |-> start, end |-> end]

hydrateSourceBlock(src, maxLines) ==
    IF src.file.state # "ok" THEN HydrateResult("none", 0, 0)
    ELSE LET len == src.file.lines
             start0 == IF src.startLine <= 0 THEN 1 ELSE src.startLine
             end0 == IF src.endLine < start0 THEN start0 ELSE src.endLine
             start == max(1, start0 - contextWindow)
             end1 == minInt(len, end0 + contextWindow)
             end == IF maxLines > 0 /\ end1 - start + 1 > maxLines
                    THEN minInt(len, start + maxLines - 1)
                    ELSE end1
         IN  IF start - 1 > end THEN HydrateResult("panic", start, end)
             ELSE IF BlankSnippet(src.file, start, end) THEN HydrateResult("none", 0, 0)
             ELSE HydrateResult("block", start, end)

InitHydrate ==
    /\ IdleStore
    /\ IdleRetrieval
    /\ IdleIndex
    /\ IdleGraph
    /\ IdleDoc
    /\ IdleChain
    /\ IdleCalib
    /\ IdlePlan
    /\ IdleRun
    /\ IdleLoad
    /\ IdleGen
    /\ IdleHealth
    /\ IdleBudget
    /\ IdleMem
    /\ hydIn \in HydrateInputs
    /\ hydOut = NoHydrate

\* collectHydratedBlocks hands a source of its claim to hydrateSourceBlock
HydrateSource ==
    /\ ~hydOut.called
    /\ hydOut' = hydrateSourceBlock(hydIn, MaxBlockLines)
    /\ UNCHANGED hydIn
    /\ UNCHANGED <<storeVars, retrievalVars, indexVars, graphVars, docVars, chainVars,
                   calibVars, planVars, runVars, loadVars, genVars, healthVars, budgetVars, memVars>>

NextHydrate == HydrateSource

SpecHydrate == InitHydrate /\ [][NextHydrate]_vars

\* C29: every evidence block hydrated for a source (file, startLine, endLine)
\* has a window [s, e] with 1 <= s <= e <= the file's lines, s >= startLine - 4,
\* e <= endLine + 4 and e - s + 1 <= 60; a source without such a window yields
\* no block, and the call returns
C29_WindowWithinBounds ==
    hydOut.called =>
        /\ hydOut.result # "panic"
        /\ hydOut.result = "block" =>
            /\ 1 <= hydOut.start /\ hydOut.start <= hydOut.end
            /\ hydOut.end <= hydIn.file.lines
            /\ hydOut.start >= hydIn.startLine - contextWindow
            /\ hydOut.end <= hydIn.endLine + contextWindow
            /\ hydOut.end - hydOut.start + 1 <= MaxBlockLines

-----------------------------------------------------------------------------
(***************************************************************************)
(* MemoryIndex under any sequence of Add and Delete calls.                  *)
(***************************************************************************)
MaxMemItems == 3
MaxAddItems == 2

MemChunkIDs == {"id1", PaddedID, "id2", ""}

MemHashes == {<<"h1">>, <<"h2">>}

MemFileOf(id) == IF id = "id2" THEN "pkg/b.go" ELSE "pkg/a.go"

MemItems ==
    {[chunk |-> [id |-> id, filePath |-> MemFileOf(id), hash |-> h], fresh |-> TRUE] :
        id \in MemChunkIDs, h \in MemHashes}

MemAddLists == UNION {[1..n -> MemItems] : n \in 0..MaxAddItems}

MemDeleteIDs == MemChunkIDs \cup {"pkg/a.go"}

InitMem ==
    /\ IdleStore
    /\ IdleRetrieval
    /\ IdleIndex
    /\ IdleGraph
    /\ IdleDoc
    /\ IdleChain
    /\ IdleCalib
    /\ IdlePlan
    /\ IdleRun
    /\ IdleLoad
    /\ IdleGen
    /\ IdleHealth
    /\ IdleBudget
    /\ IdleHydrate
    /\ memIx = NewMemoryIndex

MemAdd ==
    /\ \E items \in MemAddLists :
        /\ Len(memIx.items) + Len(items) <= MaxMemItems
        /\ memIx' = MemoryIndexAdd(memIx, items)
    /\ UNCHANGED <<storeVars, retrievalVars, indexVars, graphVars, docVars, chainVars,
                   calibVars, planVars, runVars, loadVars, genVars, healthVars, budgetVars,
                   hydrateVars>>

MemDelete ==
    /\ \E ids \in SUBSET MemDeleteIDs : memIx' = MemoryIndexDelete(memIx, ids)
    /\ UNCHANGED <<storeVars, retrievalVars, indexVars, graphVars, docVars, chainVars,
                   calibVars, planVars, runVars, loadVars, genVars, healthVars, budgetVars,
                   hydrateVars>>

NextMem == MemAdd \/ MemDelete

SpecMem == InitMem /\ [][NextMem]_vars

\* C30: after any sequence of Add and Delete calls no two items of the index
\* share a chunk ID, indexByID leads from each stored ID to the item's current
\* position, and GetContentHashes returns the stored hash for exactly the
\* stored IDs
C30_IndexConsistent ==
    LET items == memIx.items
        got == GetContentHashes(memIx, MemDeleteIDs)
    IN  /\ \A i, j \in 1..Len(items) : items[i].chunk.id = items[j].chunk.id => i = j
        /\ \A i \in 1..Len(items) :
               /\ TrimID(items[i].chunk.id) \in DOMAIN memIx.indexByID
               /\ memIx.indexByID[TrimID(items[i].chunk.id)] = i
        /\ DOMAIN got = {TrimID(items[i].chunk.id) : i \in 1..Len(items)}
        /\ \A i \in 1..Len(items) : got[TrimID(items[i].chunk.id)] = items[i].chunk.hash

=============================================================================
